---- MODULE Spec2Model ----
(***************************************************************************)
(* State-machine model of main.py (PROJECT LIMITLESS): the gesture         *)
(* detector's raw tests and debounce counters, the hand tracker's routing,  *)
(* persistence and motion filter, the CursedEnergy entities, the           *)
(* TechniqueManager's per-frame update and the engine's start-up, scene    *)
(* router and main loop.                                                   *)
(*                                                                         *)
(* Number representation (the source computes in Python floats):           *)
(*   landmark coordinates      integers, thousandths of the frame          *)
(*   tracking points, deltas   integers, 1e-4 of the frame                 *)
(*   entity scale              integers, 1/ScaleOne                        *)
(*   pixel positions           integers, as in the source                  *)
(* int(x) of the source is truncation toward zero (TruncDiv); // is \div.  *)
(* Fields that only feed rendering and grow without bound (rotation,       *)
(* breath_phase) and the write-only spawn_pos are left out.                *)
(*                                                                         *)
(* Specifications, each driving the same operators with its own inputs:    *)
(*   SpecTM        TechniqueManager.update on arbitrary gesture states     *)
(*   SpecDetect    process_frame on hands that change pose in place        *)
(*   SpecTracker   process_frame on a left hand that jumps                 *)
(*   SpecVoid      the main loop in the Void, both hands in view           *)
(*   SpecVoidLost  the main loop in the Void, hands lost and found         *)
(*   SpecEnergy    the operations of one CursedEnergy                      *)
(*   SpecGestures  GestureDetector.detect on hand shapes and distances     *)
(*   SpecEngine    the process from construction to exit                   *)
(*   SpecJitter    update with the random jitter of the blend              *)
(*   SpecCollide   update with moving hands, Red closing in on Blue        *)
(***************************************************************************)
EXTENDS Integers, Sequences, FiniteSets, TLC

VARIABLES techniques, gesture_state, tracker, detector, engine

vars == <<techniques, gesture_state, tracker, detector, engine>>

\* ------------------------------------------------------------------------
\* Configuration (main.py, CONFIGURATION sections)
\* ------------------------------------------------------------------------
CANVAS_WIDTH == 1280
CANVAS_HEIGHT == 720
\* VOID_MOVE_SPEED = 2.5, as tenths
VOID_MOVE_SPEED_X10 == 25
\* NAMASTE_THRESHOLD = 0.14 and APART_THRESHOLD = 0.45, in thousandths
NAMASTE_THRESHOLD == 140
APART_THRESHOLD == 450
\* FIST_CURL_RATIO = 0.85, in hundredths
FIST_CURL_RATIO == 85
\* CROSSED_FINGER_THRESHOLD = 0.04, in thousandths
CROSSED_FINGER_THRESHOLD == 40
FIST_FRAMES_REQUIRED == 3
CROSSED_FRAMES_REQUIRED == 5
PURPLE_BLEND_FRAMES == 90
COLLISION_THRESHOLD == 80
EXPLOSION_FRAMES == 60
TRANSITION_FRAMES == 100
\* HandTracker.LOST_THRESHOLD
LOST_THRESHOLD == 15
\* MAX_DELTA = 0.05, in 1e-4
MAX_DELTA == 500
\* DELTA_SMOOTHING = 0.5, PALM_WEIGHT = 0.6 and FINGER_WEIGHT = 0.6, as tenths
DELTA_SMOOTHING_X10 == 5
PALM_WEIGHT_X10 == 6
FINGER_WEIGHT_X10 == 6
\* CursedEnergy.move: margin
MARGIN == 40

\* entity scale 1.0
ScaleOne == 200
\* SPAWN_SCALE_SPEED = 0.04
SPAWN_SCALE_SPEED == (4 * ScaleOne) \div 100
\* the literal 0.95 of the spawn tests; scale >= 0.95 iff 100*scale >= 95*ScaleOne
SpawnDone(scale) == 100 * scale >= 95 * ScaleOne

\* CursedEnergy.INACTIVE / SPAWNING / ACTIVE
INACTIVE == 0
SPAWNING == 1
ACTIVE == 2

SCENE_REAL_WORLD == 0
SCENE_TRANSITION == 1
SCENE_VOID == 2

\* hand_distance of _empty_state: -1.0, "not calculable"
NO_DISTANCE == -1

\* camera indices
CAMERA_INDEX == 1
CAMERA_FALLBACK == 0

\* ------------------------------------------------------------------------
\* Arithmetic helpers
\* ------------------------------------------------------------------------
Max(a, b) == IF a >= b THEN a ELSE b
Min(a, b) == IF a <= b THEN a ELSE b
Abs(a) == IF a >= 0 THEN a ELSE -a
\* Python int(): truncation toward zero of a / b (b > 0)
TruncDiv(a, b) == IF a >= 0 THEN a \div b ELSE -((-a) \div b)

\* ------------------------------------------------------------------------
\* CursedEnergy
\* ------------------------------------------------------------------------
NewEnergy == [state |-> INACTIVE,
              pos |-> <<CANVAS_WIDTH \div 2, CANVAS_HEIGHT \div 2>>,
              scale |-> 0]

Spawn(e, x, y) == [e EXCEPT !.state = SPAWNING, !.pos = <<x, y>>, !.scale = 0]

Activate(e) == [e EXCEPT !.state = ACTIVE, !.scale = ScaleOne]

\* a dismiss that leaves the scale as it was
Dismiss_KeepsScale(e) == [e EXCEPT !.state = INACTIVE]

Dismiss(e) == [e EXCEPT !.state = INACTIVE, !.scale = 0]

Clamp(lo, hi, v) == Max(lo, Min(hi, v))

\* move(dx, dy): dx, dy are the source's float pixel offsets, here in 1e-5 px
PxUnit == 100000
\* a move that does not look at the entity's state
Move_InAnyState(e, dx, dy) ==
    [e EXCEPT !.pos =
        <<Clamp(MARGIN, CANVAS_WIDTH - MARGIN, e.pos[1] + TruncDiv(dx, PxUnit)),
          Clamp(MARGIN, CANVAS_HEIGHT - MARGIN, e.pos[2] + TruncDiv(dy, PxUnit))>>]

Move(e, dx, dy) ==
    IF e.state = ACTIVE
    THEN [e EXCEPT !.pos =
            <<Clamp(MARGIN, CANVAS_WIDTH - MARGIN, e.pos[1] + TruncDiv(dx, PxUnit)),
              Clamp(MARGIN, CANVAS_HEIGHT - MARGIN, e.pos[2] + TruncDiv(dy, PxUnit))>>]
    ELSE e

\* move_x = -tracker.dx * CANVAS_WIDTH * VOID_MOVE_SPEED (dx in 1e-4), in 1e-5 px
MoveX(dx) == -(dx * CANVAS_WIDTH * VOID_MOVE_SPEED_X10)
MoveY(dy) == dy * CANVAS_HEIGHT * VOID_MOVE_SPEED_X10

\* ------------------------------------------------------------------------
\* GestureDetector._empty_state
\* ------------------------------------------------------------------------
EmptyState == [hand_distance |-> NO_DISTANCE,
               namaste |-> FALSE,
               hands_apart |-> FALSE,
               left_fist |-> FALSE,
               right_fist |-> FALSE,
               crossed_fingers |-> FALSE,
               left_crossed_fingers |-> FALSE,
               left_open |-> FALSE,
               right_open |-> FALSE]

\* Python None / a present value
None == <<>>
Some(v) == <<v>>
IsNone(o) == o = <<>>
Val(o) == o[1]

\* ------------------------------------------------------------------------
\* GestureDetector: raw per-frame tests on one hand's landmarks.
\* A landmark set is a record of the nine landmarks the source reads, each
\* <<x, y>> in thousandths.  Distances are compared squared:
\* dist(a) < k * dist(b) iff dist(a)^2 < k^2 * dist(b)^2.
\* ------------------------------------------------------------------------
Fingers == {"index", "middle", "ring", "pinky"}

Tip(lm, f) == CASE f = "index" -> lm.index_tip
                [] f = "middle" -> lm.middle_tip
                [] f = "ring" -> lm.ring_tip
                [] f = "pinky" -> lm.pinky_tip

Mcp(lm, f) == CASE f = "index" -> lm.index_mcp
                [] f = "middle" -> lm.middle_mcp
                [] f = "ring" -> lm.ring_mcp
                [] f = "pinky" -> lm.pinky_mcp

\* _landmark_dist, squared
Dist2(a, b) == (a[1] - b[1]) * (a[1] - b[1]) + (a[2] - b[2]) * (a[2] - b[2])

\* floor of the square root, by bisection: the root lies in lo..hi
RECURSIVE SqrtIn(_, _, _)
SqrtIn(n, lo, hi) ==
    IF lo = hi THEN lo
    ELSE LET mid == (lo + hi + 1) \div 2
         IN IF mid * mid <= n THEN SqrtIn(n, mid, hi) ELSE SqrtIn(n, lo, mid - 1)

ISqrt(n) == SqrtIn(n, 0, Min(n, 2000))

\* tip_dist < mcp_dist * FIST_CURL_RATIO
Curled(lm, f) ==
    100 * 100 * Dist2(Tip(lm, f), lm.wrist)
        < FIST_CURL_RATIO * FIST_CURL_RATIO * Dist2(Mcp(lm, f), lm.wrist)

\* tip_dist > mcp_dist
Extended(lm, f) == Dist2(Tip(lm, f), lm.wrist) > Dist2(Mcp(lm, f), lm.wrist)

\* a fist test content with three curled fingers
IsFist_ThreeSuffice(lm) == Cardinality({f \in Fingers : Curled(lm, f)}) >= 3

\* a fist test content with two curled fingers
IsFist_TwoSuffice(lm) == Cardinality({f \in Fingers : Curled(lm, f)}) >= 2

\* _is_fist: curled_count >= 4
IsFist(lm) == Cardinality({f \in Fingers : Curled(lm, f)}) >= 4

\* _is_open_hand: extended >= 3
IsOpenHand(lm) == Cardinality({f \in Fingers : Extended(lm, f)}) >= 3

\* ring / pinky "curled" of _is_crossed_fingers: dist < mcp_dist * 1.1
RelaxedCurl(lm, f) ==
    100 * Dist2(Tip(lm, f), lm.wrist) < 121 * Dist2(Mcp(lm, f), lm.wrist)

\* a crossed-fingers test that sees the cross-over in one direction only
IsCrossedFingers_OneHanded(lm) ==
    LET mcp_gap == lm.index_mcp[1] - lm.middle_mcp[1]
        tip_gap == lm.index_tip[1] - lm.middle_tip[1]
    IN /\ Extended(lm, "index") /\ Extended(lm, "middle")
       /\ (RelaxedCurl(lm, "ring") \/ RelaxedCurl(lm, "pinky"))
       /\ \/ (mcp_gap < 0 /\ tip_gap > 0 /\ Abs(tip_gap) < CROSSED_FINGER_THRESHOLD * 3)
          \/ 4 * Dist2(lm.index_tip, lm.middle_tip)
                < CROSSED_FINGER_THRESHOLD * CROSSED_FINGER_THRESHOLD

\* _is_crossed_fingers
IsCrossedFingers(lm) ==
    LET mcp_gap == lm.index_mcp[1] - lm.middle_mcp[1]
        tip_gap == lm.index_tip[1] - lm.middle_tip[1]
    IN /\ Extended(lm, "index") /\ Extended(lm, "middle")
       /\ (RelaxedCurl(lm, "ring") \/ RelaxedCurl(lm, "pinky"))
       /\ \/ (mcp_gap * tip_gap < 0 /\ Abs(tip_gap) < CROSSED_FINGER_THRESHOLD * 3)
          \/ 4 * Dist2(lm.index_tip, lm.middle_tip)
                < CROSSED_FINGER_THRESHOLD * CROSSED_FINGER_THRESHOLD

\* a debounce counter that survives a raw-false frame
Debounce_NeverResets(count, raw) == IF raw THEN count + 1 ELSE count

\* one debounce counter: +1 on a raw-true frame, 0 otherwise
Debounce(count, raw) == IF raw THEN count + 1 ELSE 0

\* a detect that takes a distance of 0 for "no distance"
Detect_ZeroIsAbsent(det, left, right) ==
    LET d2 == IF ~IsNone(left) /\ ~IsNone(right)
              THEN Dist2(Val(left).wrist, Val(right).wrist) ELSE 0
        both == d2 > 0
        lf == IF IsNone(left) THEN 0
              ELSE Debounce(det.left_fist_frames, IsFist(Val(left)))
        lc == IF IsNone(left) THEN 0
              ELSE Debounce(det.left_crossed_frames, IsCrossedFingers(Val(left)))
        rf == IF IsNone(right) THEN 0
              ELSE Debounce(det.right_fist_frames, IsFist(Val(right)))
        rc == IF IsNone(right) THEN 0
              ELSE Debounce(det.right_crossed_frames, IsCrossedFingers(Val(right)))
    IN [det |-> [left_fist_frames |-> lf, right_fist_frames |-> rf,
                 left_crossed_frames |-> lc, right_crossed_frames |-> rc],
        state |-> [hand_distance |-> IF both THEN ISqrt(d2) ELSE NO_DISTANCE,
                   namaste |-> both /\ d2 < NAMASTE_THRESHOLD * NAMASTE_THRESHOLD,
                   hands_apart |-> both /\ d2 > APART_THRESHOLD * APART_THRESHOLD,
                   left_fist |-> ~IsNone(left) /\ lf >= FIST_FRAMES_REQUIRED,
                   right_fist |-> ~IsNone(right) /\ rf >= FIST_FRAMES_REQUIRED,
                   crossed_fingers |-> ~IsNone(right) /\ rc >= CROSSED_FRAMES_REQUIRED,
                   left_crossed_fingers |-> ~IsNone(left) /\ lc >= CROSSED_FRAMES_REQUIRED,
                   left_open |-> ~IsNone(left) /\ IsOpenHand(Val(left)),
                   right_open |-> ~IsNone(right) /\ IsOpenHand(Val(right))]]

\* a detect that leaves the counters of an absent hand as they were
Detect_AbsentKeepsCounters(det, left, right) ==
    LET both == ~IsNone(left) /\ ~IsNone(right)
        d2 == IF both THEN Dist2(Val(left).wrist, Val(right).wrist) ELSE 0
        lf == IF IsNone(left) THEN det.left_fist_frames
              ELSE Debounce(det.left_fist_frames, IsFist(Val(left)))
        lc == IF IsNone(left) THEN det.left_crossed_frames
              ELSE Debounce(det.left_crossed_frames, IsCrossedFingers(Val(left)))
        rf == IF IsNone(right) THEN det.right_fist_frames
              ELSE Debounce(det.right_fist_frames, IsFist(Val(right)))
        rc == IF IsNone(right) THEN det.right_crossed_frames
              ELSE Debounce(det.right_crossed_frames, IsCrossedFingers(Val(right)))
    IN [det |-> [left_fist_frames |-> lf, right_fist_frames |-> rf,
                 left_crossed_frames |-> lc, right_crossed_frames |-> rc],
        state |-> [hand_distance |-> IF both THEN ISqrt(d2) ELSE NO_DISTANCE,
                   namaste |-> both /\ d2 < NAMASTE_THRESHOLD * NAMASTE_THRESHOLD,
                   hands_apart |-> both /\ d2 > APART_THRESHOLD * APART_THRESHOLD,
                   left_fist |-> ~IsNone(left) /\ lf >= FIST_FRAMES_REQUIRED,
                   right_fist |-> ~IsNone(right) /\ rf >= FIST_FRAMES_REQUIRED,
                   crossed_fingers |-> ~IsNone(right) /\ rc >= CROSSED_FRAMES_REQUIRED,
                   left_crossed_fingers |-> ~IsNone(left) /\ lc >= CROSSED_FRAMES_REQUIRED,
                   left_open |-> ~IsNone(left) /\ IsOpenHand(Val(left)),
                   right_open |-> ~IsNone(right) /\ IsOpenHand(Val(right))]]

\* GestureDetector.detect(left_landmarks, right_landmarks): the new counters
\* and the gesture state.  hand_distance is kept as the floor of the distance
\* in thousandths; namaste and hands_apart are decided on the exact squares.
Detect(det, left, right) ==
    LET both == ~IsNone(left) /\ ~IsNone(right)
        d2 == IF both THEN Dist2(Val(left).wrist, Val(right).wrist) ELSE 0
        lf == IF IsNone(left) THEN 0
              ELSE Debounce(det.left_fist_frames, IsFist(Val(left)))
        lc == IF IsNone(left) THEN 0
              ELSE Debounce(det.left_crossed_frames, IsCrossedFingers(Val(left)))
        rf == IF IsNone(right) THEN 0
              ELSE Debounce(det.right_fist_frames, IsFist(Val(right)))
        rc == IF IsNone(right) THEN 0
              ELSE Debounce(det.right_crossed_frames, IsCrossedFingers(Val(right)))
    IN [det |-> [left_fist_frames |-> lf, right_fist_frames |-> rf,
                 left_crossed_frames |-> lc, right_crossed_frames |-> rc],
        state |-> [hand_distance |-> IF both THEN ISqrt(d2) ELSE NO_DISTANCE,
                   namaste |-> both /\ d2 < NAMASTE_THRESHOLD * NAMASTE_THRESHOLD,
                   hands_apart |-> both /\ d2 > APART_THRESHOLD * APART_THRESHOLD,
                   left_fist |-> ~IsNone(left) /\ lf >= FIST_FRAMES_REQUIRED,
                   right_fist |-> ~IsNone(right) /\ rf >= FIST_FRAMES_REQUIRED,
                   crossed_fingers |-> ~IsNone(right) /\ rc >= CROSSED_FRAMES_REQUIRED,
                   left_crossed_fingers |-> ~IsNone(left) /\ lc >= CROSSED_FRAMES_REQUIRED,
                   left_open |-> ~IsNone(left) /\ IsOpenHand(Val(left)),
                   right_open |-> ~IsNone(right) /\ IsOpenHand(Val(right))]]

\* ------------------------------------------------------------------------
\* HandTracker
\* ------------------------------------------------------------------------
\* _get_tracking_point, in 1e-4: PALM_WEIGHT * (wrist + mid_mcp) / 2
\*                              + FINGER_WEIGHT * (index_tip + middle_tip) / 2
GetTrackingPoint(lm) ==
    LET Blend(i) == (PALM_WEIGHT_X10 * (lm.wrist[i] + lm.middle_mcp[i])
                     + FINGER_WEIGHT_X10 * (lm.index_tip[i] + lm.middle_tip[i])) \div 2
    IN <<Blend(1), Blend(2)>>

\* a routing loop that files each hand under MediaPipe's own label
RECURSIVE RouteHands_NoSwap(_, _)
RouteHands_NoSwap(acc, hands) ==
    IF hands = <<>> THEN acc
    ELSE LET h == Head(hands)
             label == h.mp_label
             pos == GetTrackingPoint(h.landmarks)
             t == acc.trk
             acc1 == IF label = "Left"
                     THEN [acc EXCEPT !.trk = [t EXCEPT !.left_hand_pos = Some(pos),
                                                        !.left_landmarks = Some(h.landmarks),
                                                        !.left_lost_frames = 0],
                                      !.found_left = TRUE]
                     ELSE [acc EXCEPT !.trk = [t EXCEPT !.right_hand_pos = Some(pos),
                                                        !.right_landmarks = Some(h.landmarks),
                                                        !.right_lost_frames = 0],
                                      !.found_right = TRUE]
         IN RouteHands_NoSwap(acc1, Tail(hands))

\* process_frame, the loop over the detected hands: hands is the sequence of
\* (MediaPipe label, landmarks) pairs; acc carries the tracker and the
\* found_left / found_right flags
RECURSIVE RouteHands(_, _)
RouteHands(acc, hands) ==
    IF hands = <<>> THEN acc
    ELSE LET h == Head(hands)
             label == IF h.mp_label = "Left" THEN "Right" ELSE "Left"
             pos == GetTrackingPoint(h.landmarks)
             t == acc.trk
             acc1 == IF label = "Left"
                     THEN [acc EXCEPT !.trk = [t EXCEPT !.left_hand_pos = Some(pos),
                                                        !.left_landmarks = Some(h.landmarks),
                                                        !.left_lost_frames = 0],
                                      !.found_left = TRUE]
                     ELSE [acc EXCEPT !.trk = [t EXCEPT !.right_hand_pos = Some(pos),
                                                        !.right_landmarks = Some(h.landmarks),
                                                        !.right_lost_frames = 0],
                                      !.found_right = TRUE]
         IN RouteHands(acc1, Tail(hands))

\* persistence that holds a hand for twice LOST_THRESHOLD frames
Persist_HoldsTwiceAsLong(acc) ==
    LET t == acc.trk
        ll == t.left_lost_frames + 1
        t1 == IF acc.found_left THEN t
              ELSE IF ll > 2 * LOST_THRESHOLD
                   THEN [t EXCEPT !.left_lost_frames = ll,
                                  !.left_hand_pos = None, !.left_landmarks = None]
                   ELSE [t EXCEPT !.left_lost_frames = ll]
        rl == t1.right_lost_frames + 1
    IN IF acc.found_right THEN t1
       ELSE IF rl > 2 * LOST_THRESHOLD
            THEN [t1 EXCEPT !.right_lost_frames = rl,
                            !.right_hand_pos = None, !.right_landmarks = None]
            ELSE [t1 EXCEPT !.right_lost_frames = rl]

\* persistence that clears a hand when lost_frames reaches LOST_THRESHOLD
Persist_ClearsAtThreshold(acc) ==
    LET t == acc.trk
        ll == t.left_lost_frames + 1
        t1 == IF acc.found_left THEN t
              ELSE IF ll >= LOST_THRESHOLD
                   THEN [t EXCEPT !.left_lost_frames = ll,
                                  !.left_hand_pos = None, !.left_landmarks = None]
                   ELSE [t EXCEPT !.left_lost_frames = ll]
        rl == t1.right_lost_frames + 1
    IN IF acc.found_right THEN t1
       ELSE IF rl >= LOST_THRESHOLD
            THEN [t1 EXCEPT !.right_lost_frames = rl,
                            !.right_hand_pos = None, !.right_landmarks = None]
            ELSE [t1 EXCEPT !.right_lost_frames = rl]

\* persistence that forgets the landmarks of a hand as soon as it is not found
Persist_ForgetsLandmarksAtOnce(acc) ==
    LET t == acc.trk
        ll == t.left_lost_frames + 1
        t1 == IF acc.found_left THEN t
              ELSE IF ll > LOST_THRESHOLD
                   THEN [t EXCEPT !.left_lost_frames = ll,
                                  !.left_hand_pos = None, !.left_landmarks = None]
                   ELSE [t EXCEPT !.left_lost_frames = ll, !.left_landmarks = None]
        rl == t1.right_lost_frames + 1
    IN IF acc.found_right THEN t1
       ELSE IF rl > LOST_THRESHOLD
            THEN [t1 EXCEPT !.right_lost_frames = rl,
                            !.right_hand_pos = None, !.right_landmarks = None]
            ELSE [t1 EXCEPT !.right_lost_frames = rl, !.right_landmarks = None]

\* process_frame, "Handle persistence"
Persist(acc) ==
    LET t == acc.trk
        ll == t.left_lost_frames + 1
        t1 == IF acc.found_left THEN t
              ELSE IF ll > LOST_THRESHOLD
                   THEN [t EXCEPT !.left_lost_frames = ll,
                                  !.left_hand_pos = None, !.left_landmarks = None]
                   ELSE [t EXCEPT !.left_lost_frames = ll]
        rl == t1.right_lost_frames + 1
    IN IF acc.found_right THEN t1
       ELSE IF rl > LOST_THRESHOLD
            THEN [t1 EXCEPT !.right_lost_frames = rl,
                            !.right_hand_pos = None, !.right_landmarks = None]
            ELSE [t1 EXCEPT !.right_lost_frames = rl]

\* a raw delta that is not clamped
RawDelta_Unclamped(cur, prev) == cur - prev

\* _calculate_deltas for one hand: the raw delta, clamped to +-MAX_DELTA
RawDelta(cur, prev) == Clamp(-MAX_DELTA, MAX_DELTA, cur - prev)

\* smoothing without memory: the smoothed delta is the raw delta
Smooth_NoMemory(smooth, raw) == raw

\* DELTA_SMOOTHING * smooth + (1 - DELTA_SMOOTHING) * raw
Smooth(smooth, raw) ==
    TruncDiv(DELTA_SMOOTHING_X10 * smooth + (10 - DELTA_SMOOTHING_X10) * raw, 10)

\* _calculate_deltas for one hand: <<dx, dy, smooth_dx, smooth_dy>>
HandDelta(pos, prev, sdx, sdy) ==
    IF ~IsNone(pos) /\ ~IsNone(prev)
    THEN LET sx == Smooth(sdx, RawDelta(Val(pos)[1], Val(prev)[1]))
             sy == Smooth(sdy, RawDelta(Val(pos)[2], Val(prev)[2]))
         IN <<sx, sy, sx, sy>>
    ELSE <<0, 0, 0, 0>>

\* _calculate_deltas
CalculateDeltas(t) ==
    LET l == HandDelta(t.left_hand_pos, t.prev_left_pos, t.smooth_left_dx, t.smooth_left_dy)
        r == HandDelta(t.right_hand_pos, t.prev_right_pos, t.smooth_right_dx, t.smooth_right_dy)
    IN [t EXCEPT !.left_dx = l[1], !.left_dy = l[2],
                 !.smooth_left_dx = l[3], !.smooth_left_dy = l[4],
                 !.right_dx = r[1], !.right_dy = r[2],
                 !.smooth_right_dx = r[3], !.smooth_right_dy = r[4],
                 !.prev_left_pos = t.left_hand_pos,
                 !.prev_right_pos = t.right_hand_pos]

\* HandTracker.process_frame up to the call of detect: routing, persistence
\* and the deltas
TrackHands(trk, hands) ==
    CalculateDeltas(
        Persist(RouteHands([trk |-> trk, found_left |-> FALSE, found_right |-> FALSE], hands)))

\* HandTracker.process_frame: the tracker, then detect on its landmarks
ProcessFrame(trk, det, hands) ==
    LET t == TrackHands(trk, hands)
        d == Detect(det, t.left_landmarks, t.right_landmarks)
    IN [tracker |-> t, detector |-> d.det, gesture_state |-> d.state]

\* ------------------------------------------------------------------------
\* TechniqueManager
\* ------------------------------------------------------------------------
NewTechniques == [blue |-> NewEnergy,
                  red |-> NewEnergy,
                  purple |-> NewEnergy,
                  was_namaste |-> FALSE,
                  was_apart |-> FALSE,
                  was_left_crossed |-> FALSE,
                  was_right_crossed |-> FALSE,
                  blend_timer |-> 0,
                  blending |-> FALSE,
                  exploding |-> FALSE,
                  explosion_timer |-> 0,
                  explosion_pos |-> <<0, 0>>]

\* ExplosionStep with the dismissal at progress >= 0.3
ExplosionStep_DismissEarly(tm) ==
    LET t == tm.explosion_timer + 1
        shrunk == [tm.purple EXCEPT !.scale =
                      Max(0, TruncDiv(ScaleOne * (EXPLOSION_FRAMES - 2 * t), EXPLOSION_FRAMES))]
        purple1 == IF tm.purple.state # INACTIVE
                   THEN IF 10 * t >= 3 * EXPLOSION_FRAMES THEN Dismiss(shrunk) ELSE shrunk
                   ELSE tm.purple
        done == t >= EXPLOSION_FRAMES
    IN [tm EXCEPT !.purple = purple1,
                  !.exploding = ~done,
                  !.explosion_timer = IF done THEN 0 ELSE t]

\* ExplosionStep that shrinks Purple but never dismisses it
ExplosionStep_NeverDismisses(tm) ==
    LET t == tm.explosion_timer + 1
        shrunk == [tm.purple EXCEPT !.scale =
                      Max(0, TruncDiv(ScaleOne * (EXPLOSION_FRAMES - 2 * t), EXPLOSION_FRAMES))]
        purple1 == IF tm.purple.state # INACTIVE THEN shrunk ELSE tm.purple
        done == t >= EXPLOSION_FRAMES
    IN [tm EXCEPT !.purple = purple1,
                  !.exploding = ~done,
                  !.explosion_timer = IF done THEN 0 ELSE t]

\* update, "DOMAIN EXPANSION EXPLOSION (locks out everything)"
\* progress = explosion_timer / EXPLOSION_FRAMES; progress > 0.3 iff 10*t > 3*FRAMES
ExplosionStep(tm) ==
    LET t == tm.explosion_timer + 1
        shrunk == [tm.purple EXCEPT !.scale =
                      Max(0, TruncDiv(ScaleOne * (EXPLOSION_FRAMES - 2 * t), EXPLOSION_FRAMES))]
        purple1 == IF tm.purple.state # INACTIVE
                   THEN IF 10 * t > 3 * EXPLOSION_FRAMES THEN Dismiss(shrunk) ELSE shrunk
                   ELSE tm.purple
        done == t >= EXPLOSION_FRAMES
    IN [tm EXCEPT !.purple = purple1,
                  !.exploding = ~done,
                  !.explosion_timer = IF done THEN 0 ELSE t]

\* BlendStep ending one tick late (blend_timer > PURPLE_BLEND_FRAMES)
BlendStep_OneTickLate(tm, jit) ==
    LET t == tm.blend_timer + 1
        mid_x == (tm.blue.pos[1] + tm.red.pos[1]) \div 2
        mid_y == (tm.blue.pos[2] + tm.red.pos[2]) \div 2
        Pull(mid, p) == p + TruncDiv((mid - p) * 5, 100)
        fadeOut == Max(0, TruncDiv(ScaleOne * (PURPLE_BLEND_FRAMES - t), PURPLE_BLEND_FRAMES))
        fadeIn == Min(ScaleOne, TruncDiv(ScaleOne * t, PURPLE_BLEND_FRAMES))
        vibrate == tm.blue.state # INACTIVE
        blue1 == IF vibrate
                 THEN [tm.blue EXCEPT !.pos = <<Pull(mid_x, tm.blue.pos[1]) + jit.bx,
                                                Pull(mid_y, tm.blue.pos[2]) + jit.by>>,
                                      !.scale = fadeOut]
                 ELSE tm.blue
        red1 == IF vibrate
                THEN [tm.red EXCEPT !.pos = <<Pull(mid_x, tm.red.pos[1]) + jit.rx,
                                              Pull(mid_y, tm.red.pos[2]) + jit.ry>>,
                                    !.scale = fadeOut]
                ELSE tm.red
        purple1 == IF vibrate
                   THEN [tm.purple EXCEPT !.scale = fadeIn, !.pos = <<mid_x, mid_y>>]
                   ELSE tm.purple
        done == t > PURPLE_BLEND_FRAMES
    IN [tm EXCEPT !.blend_timer = t,
                  !.blue = IF done THEN Dismiss(blue1) ELSE blue1,
                  !.red = IF done THEN Dismiss(red1) ELSE red1,
                  !.purple = IF done THEN Activate(purple1) ELSE purple1,
                  !.blending = ~done]

\* update, "PURPLE BLENDING (locks out everything)"; jit holds the four
\* random.randint(-4, 4) draws of this tick
BlendStep(tm, jit) ==
    LET t == tm.blend_timer + 1
        mid_x == (tm.blue.pos[1] + tm.red.pos[1]) \div 2
        mid_y == (tm.blue.pos[2] + tm.red.pos[2]) \div 2
        Pull(mid, p) == p + TruncDiv((mid - p) * 5, 100)
        fadeOut == Max(0, TruncDiv(ScaleOne * (PURPLE_BLEND_FRAMES - t), PURPLE_BLEND_FRAMES))
        fadeIn == Min(ScaleOne, TruncDiv(ScaleOne * t, PURPLE_BLEND_FRAMES))
        vibrate == tm.blue.state # INACTIVE
        blue1 == IF vibrate
                 THEN [tm.blue EXCEPT !.pos = <<Pull(mid_x, tm.blue.pos[1]) + jit.bx,
                                                Pull(mid_y, tm.blue.pos[2]) + jit.by>>,
                                      !.scale = fadeOut]
                 ELSE tm.blue
        red1 == IF vibrate
                THEN [tm.red EXCEPT !.pos = <<Pull(mid_x, tm.red.pos[1]) + jit.rx,
                                              Pull(mid_y, tm.red.pos[2]) + jit.ry>>,
                                    !.scale = fadeOut]
                ELSE tm.red
        purple1 == IF vibrate
                   THEN [tm.purple EXCEPT !.scale = fadeIn, !.pos = <<mid_x, mid_y>>]
                   ELSE tm.purple
        done == t >= PURPLE_BLEND_FRAMES
    IN [tm EXCEPT !.blend_timer = t,
                  !.blue = IF done THEN Dismiss(blue1) ELSE blue1,
                  !.red = IF done THEN Dismiss(red1) ELSE red1,
                  !.purple = IF done THEN Activate(purple1) ELSE purple1,
                  !.blending = ~done]

\* a Blue spawn that never activates
BlueTechnique_NoActivation(tm, gs, d) ==
    IF tm.blue.state = INACTIVE
    THEN IF gs.left_crossed_fingers /\ ~tm.was_left_crossed /\ tm.purple.state # ACTIVE
         THEN [tm EXCEPT !.blue = Spawn(tm.blue, CANVAS_WIDTH \div 2, CANVAS_HEIGHT \div 2)]
         ELSE tm
    ELSE IF tm.blue.state = SPAWNING
    THEN [tm EXCEPT !.blue = [tm.blue EXCEPT !.scale = tm.blue.scale + SPAWN_SCALE_SPEED]]
    ELSE LET moved == Move(tm.blue, MoveX(d.left_dx), MoveY(d.left_dy))
         IN [tm EXCEPT !.blue = IF gs.left_fist THEN Dismiss(moved) ELSE moved]

\* a Blue spawn that does not look at Purple
BlueTechnique_SpawnsUnderPurple(tm, gs, d) ==
    IF tm.blue.state = INACTIVE
    THEN IF gs.left_crossed_fingers /\ ~tm.was_left_crossed
         THEN [tm EXCEPT !.blue = Spawn(tm.blue, CANVAS_WIDTH \div 2, CANVAS_HEIGHT \div 2)]
         ELSE tm
    ELSE IF tm.blue.state = SPAWNING
    THEN LET grown == [tm.blue EXCEPT !.scale = tm.blue.scale + SPAWN_SCALE_SPEED]
         IN [tm EXCEPT !.blue = IF SpawnDone(grown.scale) THEN Activate(grown) ELSE grown]
    ELSE LET moved == Move(tm.blue, MoveX(d.left_dx), MoveY(d.left_dy))
         IN [tm EXCEPT !.blue = IF gs.left_fist THEN Dismiss(moved) ELSE moved]

\* update, "BLUE TECHNIQUE (Lapse)"
BlueTechnique(tm, gs, d) ==
    IF tm.blue.state = INACTIVE
    THEN IF gs.left_crossed_fingers /\ ~tm.was_left_crossed /\ tm.purple.state # ACTIVE
         THEN [tm EXCEPT !.blue = Spawn(tm.blue, CANVAS_WIDTH \div 2, CANVAS_HEIGHT \div 2)]
         ELSE tm
    ELSE IF tm.blue.state = SPAWNING
    THEN LET grown == [tm.blue EXCEPT !.scale = tm.blue.scale + SPAWN_SCALE_SPEED]
         IN [tm EXCEPT !.blue = IF SpawnDone(grown.scale) THEN Activate(grown) ELSE grown]
    ELSE LET moved == Move(tm.blue, MoveX(d.left_dx), MoveY(d.left_dy))
         IN [tm EXCEPT !.blue = IF gs.left_fist THEN Dismiss(moved) ELSE moved]

\* target_scale of the Red spawn: (dist - NAMASTE) / (APART - NAMASTE), clamped
TargetScale(dist) ==
    Clamp(0, ScaleOne,
          TruncDiv((dist - NAMASTE_THRESHOLD) * ScaleOne, APART_THRESHOLD - NAMASTE_THRESHOLD))

\* a Red spawn that the namaste zone does not cancel
RedTechnique_NeverCancels(tm, gs, d) ==
    IF tm.red.state = INACTIVE
    THEN IF gs.hands_apart /\ ~tm.was_apart /\ ~(tm.purple.state = ACTIVE)
         THEN [tm EXCEPT !.red = Spawn(tm.red, CANVAS_WIDTH \div 2, CANVAS_HEIGHT \div 2)]
         ELSE tm
    ELSE IF tm.red.state = SPAWNING
    THEN LET dist == gs.hand_distance
             grown == [tm.red EXCEPT !.scale =
                          IF dist >= 0
                          THEN tm.red.scale + TruncDiv((TargetScale(dist) - tm.red.scale) * 15, 100)
                          ELSE tm.red.scale + SPAWN_SCALE_SPEED]
         IN [tm EXCEPT !.red = IF SpawnDone(grown.scale) THEN Activate(grown) ELSE grown]
    ELSE LET moved == Move(tm.red, MoveX(d.right_dx), MoveY(d.right_dy))
         IN [tm EXCEPT !.red = IF gs.right_fist THEN Dismiss(moved) ELSE moved]

\* a Red that a right fist dismisses while it is still Spawning
RedTechnique_FistCancelsSpawn(tm, gs, d) ==
    IF tm.red.state = INACTIVE
    THEN IF gs.hands_apart /\ ~tm.was_apart /\ ~(tm.purple.state = ACTIVE)
         THEN [tm EXCEPT !.red = Spawn(tm.red, CANVAS_WIDTH \div 2, CANVAS_HEIGHT \div 2)]
         ELSE tm
    ELSE IF tm.red.state = SPAWNING
    THEN LET dist == gs.hand_distance
             grown == [tm.red EXCEPT !.scale =
                          IF dist >= 0
                          THEN tm.red.scale + TruncDiv((TargetScale(dist) - tm.red.scale) * 15, 100)
                          ELSE tm.red.scale + SPAWN_SCALE_SPEED]
             act == IF SpawnDone(grown.scale) THEN Activate(grown) ELSE grown
         IN [tm EXCEPT !.red = IF (dist >= 0 /\ dist < NAMASTE_THRESHOLD) \/ gs.right_fist
                                THEN Dismiss(act) ELSE act]
    ELSE LET moved == Move(tm.red, MoveX(d.right_dx), MoveY(d.right_dy))
         IN [tm EXCEPT !.red = IF gs.right_fist THEN Dismiss(moved) ELSE moved]

\* update, "RED TECHNIQUE (Reversal)"
RedTechnique(tm, gs, d) ==
    IF tm.red.state = INACTIVE
    THEN IF gs.hands_apart /\ ~tm.was_apart /\ ~(tm.purple.state = ACTIVE)
         THEN [tm EXCEPT !.red = Spawn(tm.red, CANVAS_WIDTH \div 2, CANVAS_HEIGHT \div 2)]
         ELSE tm
    ELSE IF tm.red.state = SPAWNING
    THEN LET dist == gs.hand_distance
             grown == [tm.red EXCEPT !.scale =
                          IF dist >= 0
                          THEN tm.red.scale + TruncDiv((TargetScale(dist) - tm.red.scale) * 15, 100)
                          ELSE tm.red.scale + SPAWN_SCALE_SPEED]
             act == IF SpawnDone(grown.scale) THEN Activate(grown) ELSE grown
         IN [tm EXCEPT !.red = IF dist >= 0 /\ dist < NAMASTE_THRESHOLD
                                THEN Dismiss(act) ELSE act]
    ELSE LET moved == Move(tm.red, MoveX(d.right_dx), MoveY(d.right_dy))
         IN [tm EXCEPT !.red = IF gs.right_fist THEN Dismiss(moved) ELSE moved]

\* a collision check that also fires at exactly COLLISION_THRESHOLD
PurpleTrigger_AtThreshold(tm) ==
    IF tm.blue.state = ACTIVE /\ tm.red.state = ACTIVE /\ tm.purple.state = INACTIVE
    THEN LET dx == tm.blue.pos[1] - tm.red.pos[1]
             dy == tm.blue.pos[2] - tm.red.pos[2]
         IN IF dx * dx + dy * dy <= COLLISION_THRESHOLD * COLLISION_THRESHOLD
            THEN [tm EXCEPT !.blending = TRUE,
                            !.blend_timer = 0,
                            !.purple = Spawn(tm.purple,
                                             (tm.blue.pos[1] + tm.red.pos[1]) \div 2,
                                             (tm.blue.pos[2] + tm.red.pos[2]) \div 2)]
            ELSE tm
    ELSE tm

\* a collision check that starts the blend without spawning Purple
PurpleTrigger_NoSpawn(tm) ==
    IF tm.blue.state = ACTIVE /\ tm.red.state = ACTIVE /\ tm.purple.state = INACTIVE
    THEN LET dx == tm.blue.pos[1] - tm.red.pos[1]
             dy == tm.blue.pos[2] - tm.red.pos[2]
         IN IF dx * dx + dy * dy < COLLISION_THRESHOLD * COLLISION_THRESHOLD
            THEN [tm EXCEPT !.blending = TRUE, !.blend_timer = 0]
            ELSE tm
    ELSE tm

\* update, "PURPLE TECHNIQUE (Hollow)": collision check.
\* sqrt(dx*dx + dy*dy) < COLLISION_THRESHOLD iff dx*dx + dy*dy < THRESHOLD^2
PurpleTrigger(tm) ==
    IF tm.blue.state = ACTIVE /\ tm.red.state = ACTIVE /\ tm.purple.state = INACTIVE
    THEN LET dx == tm.blue.pos[1] - tm.red.pos[1]
             dy == tm.blue.pos[2] - tm.red.pos[2]
         IN IF dx * dx + dy * dy < COLLISION_THRESHOLD * COLLISION_THRESHOLD
            THEN [tm EXCEPT !.blending = TRUE,
                            !.blend_timer = 0,
                            !.purple = Spawn(tm.purple,
                                             (tm.blue.pos[1] + tm.red.pos[1]) \div 2,
                                             (tm.blue.pos[2] + tm.red.pos[2]) \div 2)]
            ELSE tm
    ELSE tm

\* PurpleControl with the explosion trigger open to a Purple that is not yet Active
PurpleControl_AnyLivePurple(tm, gs, d) ==
    IF tm.purple.state # INACTIVE
    THEN LET moved == Move(tm.purple, MoveX(d.right_dx), MoveY(d.right_dy))
             tm1 == [tm EXCEPT !.purple = moved]
         IN IF gs.crossed_fingers /\ ~tm.was_right_crossed
            THEN [tm1 EXCEPT !.exploding = TRUE,
                             !.explosion_timer = 0,
                             !.explosion_pos = moved.pos]
            ELSE tm1
    ELSE tm

\* update, "Purple active -- controlled by right hand"
PurpleControl(tm, gs, d) ==
    IF tm.purple.state = ACTIVE
    THEN LET moved == Move(tm.purple, MoveX(d.right_dx), MoveY(d.right_dy))
             tm1 == [tm EXCEPT !.purple = moved]
         IN IF gs.crossed_fingers /\ ~tm.was_right_crossed
            THEN [tm1 EXCEPT !.exploding = TRUE,
                             !.explosion_timer = 0,
                             !.explosion_pos = moved.pos]
            ELSE tm1
    ELSE tm

\* update, "Track edge states"
TrackEdges(tm, gs) ==
    [tm EXCEPT !.was_namaste = gs.namaste,
               !.was_apart = gs.hands_apart,
               !.was_left_crossed = gs.left_crossed_fingers,
               !.was_right_crossed = gs.crossed_fingers]

\* an update that checks for the collision before the Blue and Red branches
NormalStep_CollisionFirst(tm, gs, d) ==
    TrackEdges(
        PurpleControl(
            RedTechnique(BlueTechnique(PurpleTrigger(tm), gs, d), gs, d),
            gs, d),
        gs)

\* the part of update below the two lock-outs
NormalStep(tm, gs, d) ==
    TrackEdges(
        PurpleControl(
            PurpleTrigger(RedTechnique(BlueTechnique(tm, gs, d), gs, d)),
            gs, d),
        gs)

\* an update whose blend lets a left fist dismiss Blue
Update_FistCutsThroughBlend(tm, gs, d, jit) ==
    IF tm.exploding THEN ExplosionStep(tm)
    ELSE IF tm.blending
    THEN LET blended == BlendStep(tm, jit)
         IN IF gs.left_fist THEN [blended EXCEPT !.blue = Dismiss(blended.blue)]
            ELSE blended
    ELSE NormalStep(tm, gs, d)

\* TechniqueManager.update(gesture_state, tracker)
Update(tm, gs, d, jit) ==
    IF tm.exploding THEN ExplosionStep(tm)
    ELSE IF tm.blending THEN BlendStep(tm, jit)
    ELSE NormalStep(tm, gs, d)

\* ------------------------------------------------------------------------
\* HandTracker and GestureDetector state after construction
\* ------------------------------------------------------------------------
NewTracker == [left_hand_pos |-> None, right_hand_pos |-> None,
               prev_left_pos |-> None, prev_right_pos |-> None,
               left_dx |-> 0, left_dy |-> 0, right_dx |-> 0, right_dy |-> 0,
               smooth_left_dx |-> 0, smooth_left_dy |-> 0,
               smooth_right_dx |-> 0, smooth_right_dy |-> 0,
               left_landmarks |-> None, right_landmarks |-> None,
               left_lost_frames |-> 0, right_lost_frames |-> 0]

NewDetector == [left_fist_frames |-> 0, right_fist_frames |-> 0,
                left_crossed_frames |-> 0, right_crossed_frames |-> 0]

\* LimitlessEngine._init_sound: what the three ways through it leave in
\* domain_sfx, as "a sound is loaded"
SoundOutcomes == {"loaded", "file_missing", "load_failed", "init_failed"}
InitSound(outcome) == outcome = "loaded"

\* whether pygame.mixer.init() has succeeded: it has unless it is what raised
MixerInitialised(outcome) == outcome # "init_failed"

\* LimitlessEngine.__init__.  Beside the source's fields the record keeps
\*   mixer           pygame.mixer is initialised
\*   windows         cv2.imshow has opened the display window
\*   q_pressed       the quit key was down during the last loop iteration
\*   sfx_plays       how often domain_sfx.play() has been called
\*   opens           the camera indices VideoCapture has been called with
\*   cap             the index of the camera that is open, if any
\*   error_reported  "ERROR: No camera found!" has been printed
\*   pc              where the process is: "constructed" (before run),
\*                   "loop", "returned" (run has returned), "exited"
\*   exit_code       the status of sys.exit, if it was called
NewEngineWith(outcome) ==
    [scene |-> SCENE_REAL_WORLD, transition_frame |-> 0, was_right_crossed |-> FALSE,
     running |-> FALSE, cap |-> None, domain_sfx |-> InitSound(outcome),
     mixer |-> MixerInitialised(outcome), windows |-> FALSE, q_pressed |-> FALSE,
     sfx_plays |-> 0, opens |-> <<>>, error_reported |-> FALSE,
     pc |-> "constructed", exit_code |-> None]

NewEngine == NewEngineWith("loaded")

\* _init_camera that goes back to the primary camera after the fallback
InitCamera_TriesPrimaryAgain(eng, primary_ok, fallback_ok) ==
    LET first == [eng EXCEPT !.opens = Append(@, CAMERA_INDEX),
                             !.cap = IF primary_ok THEN Some(CAMERA_INDEX) ELSE None]
        second == IF IsNone(first.cap)
                  THEN [first EXCEPT !.opens = Append(@, CAMERA_FALLBACK),
                                     !.cap = IF fallback_ok THEN Some(CAMERA_FALLBACK)
                                             ELSE None]
                  ELSE first
        third == IF IsNone(second.cap)
                 THEN [second EXCEPT !.opens = Append(@, CAMERA_INDEX),
                                     !.cap = IF primary_ok THEN Some(CAMERA_INDEX) ELSE None]
                 ELSE second
    IN IF IsNone(third.cap)
       THEN [third EXCEPT !.error_reported = TRUE, !.pc = "exited", !.exit_code = Some(1)]
       ELSE third

\* LimitlessEngine._init_camera; primary_ok and fallback_ok say whether
\* VideoCapture(CAMERA_INDEX) and VideoCapture(CAMERA_FALLBACK) open
InitCamera(eng, primary_ok, fallback_ok) ==
    LET first == [eng EXCEPT !.opens = Append(@, CAMERA_INDEX),
                             !.cap = IF primary_ok THEN Some(CAMERA_INDEX) ELSE None]
        second == IF IsNone(first.cap)
                  THEN [first EXCEPT !.opens = Append(@, CAMERA_FALLBACK),
                                     !.cap = IF fallback_ok THEN Some(CAMERA_FALLBACK)
                                             ELSE None]
                  ELSE first
    IN IF IsNone(second.cap)
       THEN [second EXCEPT !.error_reported = TRUE, !.pc = "exited", !.exit_code = Some(1)]
       ELSE second

\* LimitlessEngine.run up to the head of the loop
RunStart(eng, primary_ok, fallback_ok) ==
    LET e == InitCamera(eng, primary_ok, fallback_ok)
    IN IF e.pc = "exited" THEN e
       ELSE [e EXCEPT !.running = TRUE, !.pc = "loop"]

\* a scene router that plays the sound on every frame of the transition too
SceneRouter_PlaysThroughTransition(eng, tm, gs, trk, jit) ==
    IF eng.scene = SCENE_REAL_WORLD
    THEN [engine |-> IF gs.crossed_fingers /\ ~eng.was_right_crossed
                     THEN [eng EXCEPT !.scene = SCENE_TRANSITION,
                                      !.transition_frame = 0,
                                      !.sfx_plays = IF eng.domain_sfx THEN @ + 1 ELSE @,
                                      !.was_right_crossed = gs.crossed_fingers]
                     ELSE [eng EXCEPT !.was_right_crossed = gs.crossed_fingers],
          techniques |-> tm]
    ELSE IF eng.scene = SCENE_TRANSITION
    THEN [engine |-> [eng EXCEPT !.transition_frame = eng.transition_frame + 1,
                                 !.sfx_plays = IF eng.domain_sfx THEN @ + 1 ELSE @,
                                 !.scene = IF eng.transition_frame + 1 >= TRANSITION_FRAMES
                                           THEN SCENE_VOID ELSE SCENE_TRANSITION],
          techniques |-> tm]
    ELSE [engine |-> eng, techniques |-> Update(tm, gs, trk, jit)]

\* a scene router that leaves the real world only when it can play the sound
SceneRouter_SilentStaysInRealWorld(eng, tm, gs, trk, jit) ==
    IF eng.scene = SCENE_REAL_WORLD
    THEN [engine |-> IF gs.crossed_fingers /\ ~eng.was_right_crossed /\ eng.domain_sfx
                     THEN [eng EXCEPT !.scene = SCENE_TRANSITION,
                                      !.transition_frame = 0,
                                      !.sfx_plays = @ + 1,
                                      !.was_right_crossed = gs.crossed_fingers]
                     ELSE [eng EXCEPT !.was_right_crossed = gs.crossed_fingers],
          techniques |-> tm]
    ELSE IF eng.scene = SCENE_TRANSITION
    THEN [engine |-> [eng EXCEPT !.transition_frame = eng.transition_frame + 1,
                                 !.scene = IF eng.transition_frame + 1 >= TRANSITION_FRAMES
                                           THEN SCENE_VOID ELSE SCENE_TRANSITION],
          techniques |-> tm]
    ELSE [engine |-> eng, techniques |-> Update(tm, gs, trk, jit)]

\* a scene router whose transition ends one frame late
\* (transition_frame > TRANSITION_FRAMES)
SceneRouter_OneFrameLate(eng, tm, gs, trk, jit) ==
    IF eng.scene = SCENE_REAL_WORLD
    THEN [engine |-> IF gs.crossed_fingers /\ ~eng.was_right_crossed
                     THEN [eng EXCEPT !.scene = SCENE_TRANSITION,
                                      !.transition_frame = 0,
                                      !.sfx_plays = IF eng.domain_sfx THEN @ + 1 ELSE @,
                                      !.was_right_crossed = gs.crossed_fingers]
                     ELSE [eng EXCEPT !.was_right_crossed = gs.crossed_fingers],
          techniques |-> tm]
    ELSE IF eng.scene = SCENE_TRANSITION
    THEN [engine |-> [eng EXCEPT !.transition_frame = eng.transition_frame + 1,
                                 !.scene = IF eng.transition_frame + 1 > TRANSITION_FRAMES
                                           THEN SCENE_VOID ELSE SCENE_TRANSITION],
          techniques |-> tm]
    ELSE [engine |-> eng, techniques |-> Update(tm, gs, trk, jit)]

\* LimitlessEngine.run, the scene router of one loop iteration, after
\* process_frame: the engine and the techniques it leaves
SceneRouter(eng, tm, gs, trk, jit) ==
    IF eng.scene = SCENE_REAL_WORLD
    THEN [engine |-> IF gs.crossed_fingers /\ ~eng.was_right_crossed
                     THEN [eng EXCEPT !.scene = SCENE_TRANSITION,
                                      !.transition_frame = 0,
                                      !.sfx_plays = IF eng.domain_sfx THEN @ + 1 ELSE @,
                                      !.was_right_crossed = gs.crossed_fingers]
                     ELSE [eng EXCEPT !.was_right_crossed = gs.crossed_fingers],
          techniques |-> tm]
    ELSE IF eng.scene = SCENE_TRANSITION
    THEN [engine |-> [eng EXCEPT !.transition_frame = eng.transition_frame + 1,
                                 !.scene = IF eng.transition_frame + 1 >= TRANSITION_FRAMES
                                           THEN SCENE_VOID ELSE SCENE_TRANSITION],
          techniques |-> tm]
    ELSE [engine |-> eng, techniques |-> Update(tm, gs, trk, jit)]

\* LimitlessEngine.run, one iteration of the loop on the whole state st:
\* ret says whether cap.read() delivered a frame with the hands in it, key is
\* what waitKey returns
Iteration(st, ret, hands, key, jit) ==
    IF ~ret THEN [st EXCEPT !.engine = [st.engine EXCEPT !.q_pressed = (key = "q")]]
    ELSE LET r == ProcessFrame(st.tracker, st.detector, hands)
             s == SceneRouter(st.engine, st.techniques, r.gesture_state, r.tracker, jit)
             shown == [s.engine EXCEPT !.windows = TRUE, !.q_pressed = (key = "q")]
         IN [techniques |-> s.techniques,
             gesture_state |-> r.gesture_state,
             tracker |-> r.tracker,
             detector |-> r.detector,
             engine |-> IF key = "q" THEN [shown EXCEPT !.running = FALSE]
                        ELSE shown]

\* LimitlessEngine.run after the loop: cap.release(), destroyAllWindows(),
\* pygame.mixer.quit(), and run returns
Shutdown(eng) ==
    [eng EXCEPT !.cap = None, !.windows = FALSE, !.mixer = FALSE, !.pc = "returned"]

\* ------------------------------------------------------------------------
\* SpecTM: TechniqueManager.update driven by arbitrary gesture states
\* ------------------------------------------------------------------------
\* hand distances offered to update, in thousandths: absent, inside the
\* namaste zone, between the thresholds, beyond the apart threshold
TMDistances == {NO_DISTANCE, 100, 300, 500}
TMHandGestures == {"none", "fist", "crossed"}

\* a GestureState as detect builds it from a distance and the debounced flags
MkGestureState(dist, lg, rg) ==
    [hand_distance |-> dist,
     namaste |-> dist >= 0 /\ dist < NAMASTE_THRESHOLD,
     hands_apart |-> dist > APART_THRESHOLD,
     left_fist |-> lg = "fist",
     right_fist |-> rg = "fist",
     crossed_fingers |-> rg = "crossed",
     left_crossed_fingers |-> lg = "crossed",
     left_open |-> FALSE,
     right_open |-> FALSE]

\* the gesture states offered to update: any distance, and at most one
\* debounced gesture at a time, of either hand
TMGestureStates ==
    {MkGestureState(dist, lg, "none") : dist \in TMDistances, lg \in TMHandGestures}
    \cup {MkGestureState(dist, "none", rg) : dist \in TMDistances, rg \in TMHandGestures}

\* smoothed hand deltas offered to update, in 1e-4: hands at rest
TMDeltas == {[left_dx |-> 0, left_dy |-> 0, right_dx |-> 0, right_dy |-> 0]}

NoJitter == [bx |-> 0, by |-> 0, rx |-> 0, ry |-> 0]
TMJitters == {NoJitter}

\* the engine as it stands in the Void, where update is called every frame
VoidEngine ==
    [RunStart(NewEngine, TRUE, TRUE) EXCEPT !.scene = SCENE_VOID,
                                            !.transition_frame = TRANSITION_FRAMES,
                                            !.was_right_crossed = TRUE,
                                            !.windows = TRUE,
                                            !.sfx_plays = 1]

TMInit ==
    /\ techniques = NewTechniques
    /\ gesture_state = EmptyState
    /\ tracker = NewTracker
    /\ detector = NewDetector
    /\ engine = VoidEngine

\* one call of TechniqueManager.update
UpdateTick(gs, d, jit) ==
    /\ techniques' = Update(techniques, gs, d, jit)
    /\ gesture_state' = gs
    /\ UNCHANGED <<tracker, detector, engine>>

TMNext == \E gs \in TMGestureStates, d \in TMDeltas, jit \in TMJitters : UpdateTick(gs, d, jit)

SpecTM == TMInit /\ [][TMNext]_vars

\* ------------------------------------------------------------------------
\* Claims about TechniqueManager.update (SpecTM)
\* ------------------------------------------------------------------------
Blue == techniques.blue
Red == techniques.red
Purple == techniques.purple

\* C1: in every reachable state of the orchestrator, blending and exploding
\* are never both true.
C1_LockoutsExclusive == ~(techniques.blending /\ techniques.exploding)

\* an explosion under way: a blend has run before it, and it is not blending
C1_Witness == techniques.exploding /\ ~techniques.blending /\ techniques.explosion_timer = 30

\* C2: a blend starts with blend_timer 0 and Purple Spawning, stays blending
\* for the first 89 ticks whatever the gesture input, and on the 90th tick
\* Blue and Red are dismissed, Purple is Active with scale 1.0 and blending
\* is false.
C2_BlendStep ==
    /\ (~techniques.blending /\ techniques'.blending) =>
          /\ techniques'.blend_timer = 0
          /\ techniques'.purple.state = SPAWNING
          /\ techniques'.purple.pos =
                <<(techniques'.blue.pos[1] + techniques'.red.pos[1]) \div 2,
                  (techniques'.blue.pos[2] + techniques'.red.pos[2]) \div 2>>
    /\ (techniques.blending /\ techniques.blend_timer < 89) =>
          /\ techniques'.blending
          /\ techniques'.blend_timer = techniques.blend_timer + 1
    /\ (techniques.blending /\ techniques.blend_timer = 89) =>
          /\ ~techniques'.blending
          /\ techniques'.blend_timer = 90
          /\ techniques'.blue.state = INACTIVE
          /\ techniques'.red.state = INACTIVE
          /\ techniques'.purple.state = ACTIVE
          /\ techniques'.purple.scale = ScaleOne

C2_BlendTakes90Ticks ==
    /\ [](techniques.blending => techniques.blend_timer \in 0..89)
    /\ [][C2_BlendStep]_vars

\* the state the 90th blend tick leaves
C2_Witness ==
    /\ ~techniques.blending
    /\ techniques.blend_timer = 90
    /\ Purple.state = ACTIVE /\ Purple.scale = ScaleOne
    /\ Blue.state = INACTIVE /\ Red.state = INACTIVE

\* C3: an explosion starts with explosion_timer 0 and Purple Active; Purple
\* stays Active through lock-out ticks 1..18, is dismissed (Inactive, scale 0)
\* on tick 19, and exploding ends, with explosion_timer back at 0, on tick 60
\* and on no earlier tick, whatever the gesture input.
C3_ExplosionStep ==
    /\ (~techniques.exploding /\ techniques'.exploding) =>
          /\ techniques'.explosion_timer = 0
          /\ techniques'.purple.state = ACTIVE
    /\ (techniques.exploding /\ techniques.explosion_timer < 18) =>
          techniques'.purple.state = ACTIVE
    /\ (techniques.exploding /\ techniques.explosion_timer = 18) =>
          /\ Purple.state = ACTIVE
          /\ techniques'.purple.state = INACTIVE
          /\ techniques'.purple.scale = 0
    /\ (techniques.exploding /\ techniques.explosion_timer < 59) =>
          /\ techniques'.exploding
          /\ techniques'.explosion_timer = techniques.explosion_timer + 1
    /\ (techniques.exploding /\ techniques.explosion_timer = 59) =>
          /\ ~techniques'.exploding
          /\ techniques'.explosion_timer = 0

C3_ExplosionTimeline ==
    /\ [](techniques.exploding => techniques.explosion_timer \in 0..59)
    /\ [][C3_ExplosionStep]_vars

\* the last tick but one of an explosion, Purple long dismissed
C3_Witness ==
    techniques.exploding /\ techniques.explosion_timer = 59 /\ Purple.state = INACTIVE

\* C6: each one-shot trigger fires on a tick only if its flag is true in that
\* tick's GestureState (gesture_state') and was false in the GestureState of
\* the frame before (gesture_state).
C6_TriggerStep ==
    /\ (Blue.state = INACTIVE /\ techniques'.blue.state = SPAWNING) =>
          (gesture_state'.left_crossed_fingers /\ ~gesture_state.left_crossed_fingers)
    /\ (Red.state = INACTIVE /\ techniques'.red.state = SPAWNING) =>
          (gesture_state'.hands_apart /\ ~gesture_state.hands_apart)
    /\ (~techniques.exploding /\ techniques'.exploding) =>
          (gesture_state'.crossed_fingers /\ ~gesture_state.crossed_fingers)

C6_TriggersOnRisingEdgeOnly == [][C6_TriggerStep]_vars

\* C22: after every call of update, also one made while blending or
\* exploding, was_apart, was_left_crossed and was_right_crossed are the
\* hands_apart, left_crossed_fingers and crossed_fingers flags of the gesture
\* state that call was given.
C22_EdgeFlagsFollowEveryCall ==
    /\ techniques.was_apart = gesture_state.hands_apart
    /\ techniques.was_left_crossed = gesture_state.left_crossed_fingers
    /\ techniques.was_right_crossed = gesture_state.crossed_fingers

\* C25: in every reachable state each entity's scale lies in [0, 1] and is 0
\* when the entity is Inactive.
C25_ScaleWithinUnitInterval ==
    \A e \in {Blue, Red, Purple} :
        /\ e.scale >= 0 /\ e.scale <= ScaleOne
        /\ e.state = INACTIVE => e.scale = 0

\* C25 witness: an explosion is shrinking Purple, after Blue and Red have
\* spawned, faded in a blend and been dismissed
C25_Witness ==
    /\ techniques.exploding /\ Purple.state = ACTIVE
    /\ Purple.scale > 0 /\ Purple.scale < ScaleOne
    /\ Blue.state = INACTIVE /\ Red.state = INACTIVE

\* C26: on a tick that finds Red Spawning, a hand distance that is available
\* and below 0.14 leaves Red Inactive with scale 0; an unavailable distance
\* leaves Red Spawning, grown by the fixed increment, or Active.
C26_CancelStep ==
    Red.state = SPAWNING =>
        LET dist == gesture_state'.hand_distance
        IN /\ (dist >= 0 /\ dist < 140) =>
                 (techniques'.red.state = INACTIVE /\ techniques'.red.scale = 0)
           /\ dist = -1 =>
                 /\ techniques'.red.state # INACTIVE
                 /\ techniques'.red.state = SPAWNING =>
                       techniques'.red.scale = Red.scale + SPAWN_SCALE_SPEED
                 /\ techniques'.red.state = ACTIVE =>
                       100 * (Red.scale + SPAWN_SCALE_SPEED) >= 95 * ScaleOne

C26_NamasteCancelsRedSpawn == [][C26_CancelStep]_vars

\* C26 witness: Red is Spawning and has grown on a tick without a distance
C26_Witness ==
    /\ Red.state = SPAWNING /\ Red.scale = 3 * SPAWN_SCALE_SPEED
    /\ gesture_state.hand_distance = -1

\* C30: a Spawning Red has a scale below 0.95, and a tick that finds it
\* Spawning with the distance available, at least 0.14 and with a target
\* (d - 0.14) / 0.31 below 0.95 leaves it Spawning with a scale below 0.95,
\* right fist or not; so it stays Spawning for as long as such ticks go on.
C30_StuckStep ==
    LET dist == gesture_state'.hand_distance
    IN (/\ Red.state = SPAWNING
        /\ dist >= 140
        /\ 100 * (dist - 140) < 95 * 310) =>
           /\ techniques'.red.state = SPAWNING
           /\ 100 * techniques'.red.scale < 95 * ScaleOne
           /\ techniques'.red.scale >= Red.scale \/ 310 * Red.scale > (dist - 140) * ScaleOne

C30_RedMayStaySpawningForever ==
    /\ [](Red.state = SPAWNING => 100 * Red.scale < 95 * ScaleOne)
    /\ [][C30_StuckStep]_vars

\* C30 witness: Red is Spawning at the scale where the approach to the target
\* of distance 0.3 has come to rest, on a tick with a right fist
C30_Witness ==
    /\ Red.state = SPAWNING /\ Red.scale = 97
    /\ gesture_state.hand_distance = 300 /\ gesture_state.right_fist


\* ------------------------------------------------------------------------
\* Hands shown to the camera.  A pose is the offset of each landmark from a
\* reference point; the three poses have the same tracking point, so a hand
\* that changes pose in place has a zero delta.
\* ------------------------------------------------------------------------
OpenPose == [wrist |-> <<0, 0>>,
             index_mcp |-> <<-30, -100>>, index_tip |-> <<-40, -200>>,
             middle_mcp |-> <<-10, -105>>, middle_tip |-> <<-10, -216>>,
             ring_mcp |-> <<10, -100>>, ring_tip |-> <<15, -200>>,
             pinky_mcp |-> <<30, -90>>, pinky_tip |-> <<45, -170>>]

\* index and middle tips swapped, ring and pinky folded
CrossedPose == [OpenPose EXCEPT !.index_tip = <<-10, -216>>, !.middle_tip = <<-40, -200>>,
                                !.ring_tip = <<8, -60>>, !.pinky_tip = <<25, -55>>]

\* the four tips folded towards the wrist
FistPose == [wrist |-> <<-3, -73>>,
             index_mcp |-> <<-33, -173>>, index_tip |-> <<-29, -134>>,
             middle_mcp |-> <<-13, -178>>, middle_tip |-> <<-15, -136>>,
             ring_mcp |-> <<7, -173>>, ring_tip |-> <<5, -133>>,
             pinky_mcp |-> <<27, -163>>, pinky_tip |-> <<22, -128>>]

\* a fist with one tip past FIST_CURL_RATIO of its MCP, still inside the MCP
FistIndexOut == [FistPose EXCEPT !.index_tip = <<-33, -168>>]
FistMiddleOut == [FistPose EXCEPT !.middle_tip = <<-13, -173>>]
FistRingOut == [FistPose EXCEPT !.ring_tip = <<7, -168>>]
FistPinkyOut == [FistPose EXCEPT !.pinky_tip = <<25, -158>>]

\* a fist whose index tip is at exactly FIST_CURL_RATIO of its MCP distance
FistIndexOnRatio == [FistPose EXCEPT !.index_mcp = <<-3, -173>>, !.index_tip = <<-3, -158>>]

\* index and middle tips touching without having crossed over
PinchedPose == [CrossedPose EXCEPT !.index_tip = <<-25, -210>>, !.middle_tip = <<-15, -212>>]

\* tips crossed over but 0.13 apart in x, and exactly 0.12 apart
CrossedWidePose == [CrossedPose EXCEPT !.index_tip = <<60, -200>>, !.middle_tip = <<-70, -200>>]
CrossedOnLimitPose == [CrossedPose EXCEPT !.index_tip = <<50, -200>>, !.middle_tip = <<-70, -200>>]

\* tips crossed over with ring and pinky extended
CrossedAllOutPose == [CrossedPose EXCEPT !.ring_tip = <<15, -200>>, !.pinky_tip = <<45, -170>>]

\* index and middle extended side by side, ring and pinky folded
TwoOutPose == [OpenPose EXCEPT !.ring_tip = <<8, -60>>, !.pinky_tip = <<25, -55>>]

PoseOf(name) == CASE name = "open" -> OpenPose
                  [] name = "crossed" -> CrossedPose
                  [] name = "fist" -> FistPose
                  [] name = "fist_index_out" -> FistIndexOut
                  [] name = "fist_middle_out" -> FistMiddleOut
                  [] name = "fist_ring_out" -> FistRingOut
                  [] name = "fist_pinky_out" -> FistPinkyOut
                  [] name = "fist_index_on_ratio" -> FistIndexOnRatio
                  [] name = "pinched" -> PinchedPose
                  [] name = "crossed_wide" -> CrossedWidePose
                  [] name = "crossed_on_limit" -> CrossedOnLimitPose
                  [] name = "crossed_all_out" -> CrossedAllOutPose
                  [] name = "two_out" -> TwoOutPose

\* the landmarks of a hand in pose name at reference point at
Hand(at, name) ==
    LET p == PoseOf(name)
        Off(o) == <<at[1] + o[1], at[2] + o[2]>>
    IN [wrist |-> Off(p.wrist),
        index_mcp |-> Off(p.index_mcp), index_tip |-> Off(p.index_tip),
        middle_mcp |-> Off(p.middle_mcp), middle_tip |-> Off(p.middle_tip),
        ring_mcp |-> Off(p.ring_mcp), ring_tip |-> Off(p.ring_tip),
        pinky_mcp |-> Off(p.pinky_mcp), pinky_tip |-> Off(p.pinky_tip)]

\* MediaPipe reports the user's left hand as "Right" and the right as "Left"
SeenLeft(lm) == <<[mp_label |-> "Right", landmarks |-> lm]>>
SeenRight(lm) == <<[mp_label |-> "Left", landmarks |-> lm]>>

LeftAt == <<350, 700>>
RightAt == <<650, 700>>

\* ------------------------------------------------------------------------
\* SpecDetect: HandTracker.process_frame on hands that stay in place and
\* change pose, appear and disappear
\* ------------------------------------------------------------------------
\* longest run of undetected frames and longest held gesture explored
MaxLost == 20
MaxCount == 6

Poses == {"open", "crossed", "fist"}

WithinBounds(t, det) ==
    /\ t.left_lost_frames <= MaxLost /\ t.right_lost_frames <= MaxLost
    /\ det.left_fist_frames <= MaxCount /\ det.right_fist_frames <= MaxCount
    /\ det.left_crossed_frames <= MaxCount /\ det.right_crossed_frames <= MaxCount

\* one call of HandTracker.process_frame on the hands found in the frame
TrackFrame(hands) ==
    \E r \in {ProcessFrame(tracker, detector, hands)} :
       /\ WithinBounds(r.tracker, r.detector)
       /\ tracker' = r.tracker
       /\ detector' = r.detector
       /\ gesture_state' = r.gesture_state
       /\ UNCHANGED <<techniques, engine>>

DetectLeftHands == {<<>>} \cup {SeenLeft(Hand(LeftAt, p)) : p \in Poses}
DetectRightHands == {<<>>} \cup {SeenRight(Hand(RightAt, p)) : p \in Poses}

TrackerInit ==
    /\ techniques = NewTechniques
    /\ gesture_state = EmptyState
    /\ tracker = NewTracker
    /\ detector = NewDetector
    /\ engine = NewEngine

DetectNext == \E l \in DetectLeftHands, r \in DetectRightHands : TrackFrame(l \o r)

SpecDetect == TrackerInit /\ [][DetectNext]_vars

\* ------------------------------------------------------------------------
\* SpecTracker: HandTracker.process_frame on an open left hand that jumps
\* between two places, 0.02 apart in x (below MAX_DELTA in tracking units
\* after weighting: 0.024) and 0.2 apart in y (above it), and an open right
\* hand that stays in place; either hand may be missed by the camera
\* ------------------------------------------------------------------------
LeftMovedAt == <<370, 500>>

TrackLeftHands == {<<>>, SeenLeft(Hand(LeftAt, "open")), SeenLeft(Hand(LeftMovedAt, "open"))}
TrackRightHands == {<<>>, SeenRight(Hand(RightAt, "open"))}

TrackNext == \E l \in TrackLeftHands, r \in TrackRightHands : TrackFrame(l \o r)

SpecTracker == TrackerInit /\ [][TrackNext]_vars

\* ------------------------------------------------------------------------
\* Claims about HandTracker.process_frame
\* ------------------------------------------------------------------------
\* the tracker's fields of one hand
HandOf(t, det, gs, side) ==
    IF side = "left"
    THEN [pos |-> t.left_hand_pos, prev |-> t.prev_left_pos, landmarks |-> t.left_landmarks,
          lost |-> t.left_lost_frames, dx |-> t.left_dx, dy |-> t.left_dy,
          sdx |-> t.smooth_left_dx, sdy |-> t.smooth_left_dy,
          fist_frames |-> det.left_fist_frames, crossed_frames |-> det.left_crossed_frames,
          fist |-> gs.left_fist, crossed |-> gs.left_crossed_fingers]
    ELSE [pos |-> t.right_hand_pos, prev |-> t.prev_right_pos, landmarks |-> t.right_landmarks,
          lost |-> t.right_lost_frames, dx |-> t.right_dx, dy |-> t.right_dy,
          sdx |-> t.smooth_right_dx, sdy |-> t.smooth_right_dy,
          fist_frames |-> det.right_fist_frames, crossed_frames |-> det.right_crossed_frames,
          fist |-> gs.right_fist, crossed |-> gs.crossed_fingers]

Sides == {"left", "right"}
Now(side) == HandOf(tracker, detector, gesture_state, side)
After(side) == HandOf(tracker', detector', gesture_state', side)

\* C5: on every frame on which detect is given landmarks for a hand, each of
\* the hand's two debounce counters is the previous counter plus one if the
\* raw test holds on those landmarks and 0 if it does not (so it counts the
\* trailing run of raw-true frames), and the debounced flag is TRUE exactly
\* when the counter has reached its threshold: 3 for the fist, 5 for crossed
\* fingers.
C5_DebounceStep ==
    \A side \in Sides :
        LET h == Now(side)
            h1 == After(side)
        IN ~IsNone(h1.landmarks) =>
              /\ h1.fist_frames = IF IsFist(Val(h1.landmarks)) THEN h.fist_frames + 1 ELSE 0
              /\ h1.crossed_frames
                    = IF IsCrossedFingers(Val(h1.landmarks)) THEN h.crossed_frames + 1 ELSE 0
              /\ h1.fist <=> h1.fist_frames >= 3
              /\ h1.crossed <=> h1.crossed_frames >= 5

C5_DebounceCountsTrailingRun == [][C5_DebounceStep]_vars

\* C5 witness: the left hand has been crossed for exactly five frames and the
\* right hand a fist for exactly three, and both flags are up
C5_Witness ==
    /\ detector.left_crossed_frames = 5 /\ gesture_state.left_crossed_fingers
    /\ detector.right_fist_frames = 3 /\ gesture_state.right_fist

\* C7 as stated: a hand undetected on two consecutive frames has exposed and
\* smoothed deltas of exactly 0 after the second.
C7_ZeroAfterTwoUndetectedFrames ==
    \A side \in Sides :
        Now(side).lost >= 2 =>
            /\ Now(side).dx = 0 /\ Now(side).dy = 0
            /\ Now(side).sdx = 0 /\ Now(side).sdy = 0

\* C7 amended: a hand's exposed and smoothed deltas are exactly 0 whenever
\* the tracker holds no position for it (never detected, or undetected for
\* more than LOST_THRESHOLD consecutive frames); on an undetected frame on
\* which the last position is still retained the smoothed delta is halved,
\* not reset, and the exposed delta is that halved value.
C7_RetainedStep ==
    \A side \in Sides :
        LET h == Now(side)
            h1 == After(side)
        IN (h1.lost = h.lost + 1 /\ ~IsNone(h1.pos)) =>
              /\ h1.sdx = TruncDiv(h.sdx, 2) /\ h1.sdy = TruncDiv(h.sdy, 2)
              /\ h1.dx = h1.sdx /\ h1.dy = h1.sdy

C7_ZeroOnlyWithoutPosition ==
    /\ [](\A side \in Sides :
            IsNone(Now(side).pos) =>
                /\ Now(side).dx = 0 /\ Now(side).dy = 0
                /\ Now(side).sdx = 0 /\ Now(side).sdy = 0)
    /\ [][C7_RetainedStep]_vars

\* C7 witness: the left hand has been undetected for two frames after a jump
\* and its smoothed delta has been halved twice, from -250 to -62
C7_Witness ==
    /\ tracker.left_lost_frames = 2
    /\ ~IsNone(tracker.left_hand_pos)
    /\ tracker.smooth_left_dy = -62 /\ tracker.left_dy = -62

\* C8: the exposed and the smoothed delta of each hand lie within
\* +-MAX_DELTA (0.05) in each axis, and on a frame that computes a delta the
\* smoothed value moves half way towards a raw delta within +-MAX_DELTA.
C8_SmoothStep ==
    \A side \in Sides :
        LET h == Now(side)
            h1 == After(side)
            Raw(i) == Val(h1.pos)[i] - Val(h.pos)[i]
            Limited(v) == IF v > MAX_DELTA THEN MAX_DELTA
                          ELSE IF v < -MAX_DELTA THEN -MAX_DELTA ELSE v
        IN (~IsNone(h1.pos) /\ ~IsNone(h.pos)) =>
              /\ h1.sdx = TruncDiv(h.sdx + Limited(Raw(1)), 2)
              /\ h1.sdy = TruncDiv(h.sdy + Limited(Raw(2)), 2)

C8_DeltasWithinMaxDelta ==
    /\ [](\A side \in Sides :
            /\ Abs(Now(side).dx) <= MAX_DELTA /\ Abs(Now(side).dy) <= MAX_DELTA
            /\ Abs(Now(side).sdx) <= MAX_DELTA /\ Abs(Now(side).sdy) <= MAX_DELTA)
    /\ [][C8_SmoothStep]_vars

\* C8 witness: the left hand has jumped 0.24 in y and 0.024 in x in one
\* frame: the y delta was clamped to -0.05 and smoothed to -0.025, the x
\* delta passed unclamped and was smoothed to 0.012
C8_Witness ==
    /\ tracker.left_lost_frames = 0
    /\ tracker.smooth_left_dy = -250 /\ tracker.smooth_left_dx = 120

\* C9: on a frame on which a hand is not detected its lost_frames goes up by
\* one; through the first LOST_THRESHOLD (15) such frames in a row its
\* position and landmarks stay as they were, and on the 16th both are
\* cleared; on a frame on which the hand is detected lost_frames is 0.
C9_PersistStep ==
    \A l \in TrackLeftHands, r \in TrackRightHands :
        tracker' = TrackHands(tracker, l \o r) =>
            \A side \in Sides :
                LET h == Now(side)
                    h1 == After(side)
                    seen == IF side = "left" THEN l # <<>> ELSE r # <<>>
                IN /\ seen => h1.lost = 0
                   /\ ~seen => /\ h1.lost = h.lost + 1
                               /\ h1.lost <= 15 => (h1.pos = h.pos /\ h1.landmarks = h.landmarks)
                               /\ h1.lost >= 16 => (IsNone(h1.pos) /\ IsNone(h1.landmarks))

C9_KeptFifteenFramesThenCleared == [][C9_PersistStep]_vars

\* C9 witness: the left hand has been undetected for 15 frames and is still
\* held, the right hand for 16 and has been cleared
C9_Witness ==
    /\ tracker.left_lost_frames = 15
    /\ ~IsNone(tracker.left_hand_pos) /\ ~IsNone(tracker.left_landmarks)
    /\ tracker.right_lost_frames = 16
    /\ IsNone(tracker.right_hand_pos) /\ IsNone(tracker.right_landmarks)

\* C17: every hand in a frame is stored in the slot opposite to its MediaPipe
\* label: one labelled Left sets the right hand's position, landmarks and
\* lost counter, one labelled Right the left hand's, and a slot no hand was
\* routed to is as after a frame without hands.  Blue is moved by the left
\* slot's deltas, Red and Purple by the right slot's.
AllActive ==
    [NewTechniques EXCEPT
        !.blue = Activate(Spawn(NewEnergy, CANVAS_WIDTH \div 2, CANVAS_HEIGHT \div 2)),
        !.red = Activate(Spawn(NewEnergy, 200, 200)),
        !.purple = Activate(Spawn(NewEnergy, 1000, 500))]

\* the three entities after one update on the tracker t without gestures
Driven(t) == Update(AllActive, EmptyState, t, NoJitter)

C17_RouteStep ==
    \A l \in TrackLeftHands, r \in TrackRightHands :
        tracker' = TrackHands(tracker, l \o r) =>
            LET hands == l \o r
                Slot(h) == IF h.mp_label = "Left" THEN "right" ELSE "left"
                idle == TrackHands(tracker, <<>>)
                Idle(side) == HandOf(idle, detector', gesture_state', side)
            IN /\ \A i \in 1..Len(hands) :
                     /\ After(Slot(hands[i])).pos = Some(GetTrackingPoint(hands[i].landmarks))
                     /\ After(Slot(hands[i])).landmarks = Some(hands[i].landmarks)
                     /\ After(Slot(hands[i])).lost = 0
               /\ \A side \in Sides :
                     (\A i \in 1..Len(hands) : Slot(hands[i]) # side) =>
                         /\ After(side).pos = Idle(side).pos
                         /\ After(side).landmarks = Idle(side).landmarks
                         /\ After(side).lost = Idle(side).lost
               /\ Driven(tracker').blue.pos =
                     <<Clamp(MARGIN, CANVAS_WIDTH - MARGIN,
                             AllActive.blue.pos[1] + TruncDiv(MoveX(tracker'.left_dx), PxUnit)),
                       Clamp(MARGIN, CANVAS_HEIGHT - MARGIN,
                             AllActive.blue.pos[2] + TruncDiv(MoveY(tracker'.left_dy), PxUnit))>>
               /\ Driven(tracker').red.pos =
                     <<Clamp(MARGIN, CANVAS_WIDTH - MARGIN,
                             AllActive.red.pos[1] + TruncDiv(MoveX(tracker'.right_dx), PxUnit)),
                       Clamp(MARGIN, CANVAS_HEIGHT - MARGIN,
                             AllActive.red.pos[2] + TruncDiv(MoveY(tracker'.right_dy), PxUnit))>>
               /\ Driven(tracker').purple.pos =
                     <<Clamp(MARGIN, CANVAS_WIDTH - MARGIN,
                             AllActive.purple.pos[1] + TruncDiv(MoveX(tracker'.right_dx), PxUnit)),
                       Clamp(MARGIN, CANVAS_HEIGHT - MARGIN,
                             AllActive.purple.pos[2] + TruncDiv(MoveY(tracker'.right_dy), PxUnit))>>

C17_ObservationsGoToTheOppositeSlot == [][C17_RouteStep]_vars

\* C17 witness: only a hand labelled Right has been seen, moving: the left
\* slot holds it, the right slot is empty, and only Blue is moved by it
C17_Witness ==
    /\ tracker.left_landmarks = Some(Hand(LeftMovedAt, "open"))
    /\ tracker.left_lost_frames = 0
    /\ IsNone(tracker.right_landmarks) /\ IsNone(tracker.right_hand_pos)
    /\ Driven(tracker).blue.pos # AllActive.blue.pos
    /\ Driven(tracker).red.pos = AllActive.red.pos
    /\ Driven(tracker).purple.pos = AllActive.purple.pos

\* ------------------------------------------------------------------------
\* SpecVoid: the main loop in the Void, frame by frame, on hands that stay in
\* place, change pose, and are lost and found by the camera together
\* ------------------------------------------------------------------------
\* one iteration of the main loop of LimitlessEngine.run on a frame the
\* camera delivered: process_frame, then the scene router
Frame(hands, jit) ==
    \E r \in {ProcessFrame(tracker, detector, hands)} :
    \E s \in {SceneRouter(engine, techniques, r.gesture_state, r.tracker, jit)} :
       /\ WithinBounds(r.tracker, r.detector)
       /\ tracker' = r.tracker
       /\ detector' = r.detector
       /\ gesture_state' = r.gesture_state
       /\ engine' = s.engine
       /\ techniques' = s.techniques

BothOpen == SeenLeft(Hand(LeftAt, "open")) \o SeenRight(Hand(RightAt, "open"))

\* the tracker once both hands have been held open and still
RestingTracker == TrackHands(TrackHands(NewTracker, BothOpen), BothOpen)

\* Red standing Active where it spawned
RedStanding ==
    [NewTechniques EXCEPT
        !.red = Activate(Spawn(NewEnergy, CANVAS_WIDTH \div 2, CANVAS_HEIGHT \div 2))]

\* The Void is entered by crossing the right hand's fingers; with both hands
\* open and still through the transition the Void starts with fresh
\* techniques.  Red standing is reached from there when the right hand is
\* first held far away (Red spawns and becomes Active), hidden for more than
\* LOST_THRESHOLD frames, and shown again at RightAt.
VoidStart(tm) ==
    /\ techniques = tm
    /\ tracker = RestingTracker
    /\ detector = NewDetector
    /\ gesture_state = Detect(NewDetector, RestingTracker.left_landmarks,
                              RestingTracker.right_landmarks).state
    /\ engine = VoidEngine

VoidLeftPoses == {"open", "crossed", "fist"}
VoidRightPoses == {"open", "crossed"}

\* both hands in view, in any of the poses
VoidHands ==
    {SeenLeft(Hand(LeftAt, l)) \o SeenRight(Hand(RightAt, r)) :
        l \in VoidLeftPoses, r \in VoidRightPoses}

VoidInit == \E tm \in {NewTechniques, RedStanding} : VoidStart(tm)

VoidNext == \E hands \in VoidHands : Frame(hands, NoJitter)

SpecVoid == VoidInit /\ [][VoidNext]_vars

\* ------------------------------------------------------------------------
\* SpecVoidLost: the main loop in the Void on hands that the camera loses
\* and finds again, both at once
\* ------------------------------------------------------------------------
LostInit == VoidStart(NewTechniques)

LostNext == \E hands \in VoidHands \cup {<<>>} : Frame(hands, NoJitter)

SpecVoidLost == LostInit /\ [][LostNext]_vars

\* ------------------------------------------------------------------------
\* Claims about the main loop in the Void
\* ------------------------------------------------------------------------
\* C4: with Blue and Purple Inactive and no lock-out active, the frame on
\* which the left hand's raw crossed-fingers run reaches 5 takes Blue from
\* Inactive to Spawning; a Spawning Blue gains SPAWN_SCALE_SPEED (0.04) per
\* tick whatever the gestures, and becomes Active with scale 1.0 on the 24th
\* tick after the spawn tick and no sooner.
C4_BlueStep ==
    /\ (/\ ~techniques.blending /\ ~techniques.exploding
        /\ Blue.state = INACTIVE /\ Purple.state = INACTIVE
        /\ detector'.left_crossed_frames = 5)
          => (techniques'.blue.state = SPAWNING /\ techniques'.blue.scale = 0)
    /\ Blue.state = SPAWNING =>
          IF Blue.scale = 23 * SPAWN_SCALE_SPEED
          THEN techniques'.blue.state = ACTIVE /\ techniques'.blue.scale = ScaleOne
          ELSE /\ techniques'.blue.state = SPAWNING
               /\ techniques'.blue.scale = Blue.scale + SPAWN_SCALE_SPEED

C4_BlueSpawnsOnFifthCrossedFrame ==
    /\ [](Blue.state = SPAWNING => \E k \in 0..23 : Blue.scale = k * SPAWN_SCALE_SPEED)
    /\ [][C4_BlueStep]_vars

\* C10 as stated: after 20 frames without either hand the gesture state is
\* empty, and on each of those frames' ticks (no lock-out active, Purple
\* Inactive) an Inactive Blue stays Inactive and an Inactive Red stays
\* Inactive.
C10_LostStep ==
    (/\ tracker'.left_lost_frames = tracker.left_lost_frames + 1
     /\ tracker'.right_lost_frames = tracker.right_lost_frames + 1
     /\ tracker'.left_lost_frames <= 20 /\ tracker'.right_lost_frames <= 20
     /\ ~techniques.blending /\ ~techniques.exploding /\ Purple.state = INACTIVE)
       => /\ Blue.state = INACTIVE => techniques'.blue.state = INACTIVE
          /\ Red.state = INACTIVE => techniques'.red.state = INACTIVE

C10_NothingSpawnsWhileHandsAreGone ==
    /\ []((tracker.left_lost_frames >= 20 /\ tracker.right_lost_frames >= 20)
            => gesture_state = EmptyState)
    /\ [][C10_LostStep]_vars

\* C10 amended: once both hands have been undetected for more than
\* LOST_THRESHOLD (15) consecutive frames, and so after 20, the gesture state
\* is empty, and on the 16th and every later such frame's tick an Inactive
\* Blue stays Inactive and an Inactive Red stays Inactive; on the first 15
\* the detector still reads the retained landmarks and Blue may spawn.
C10_ClearedStep ==
    (/\ tracker'.left_lost_frames = tracker.left_lost_frames + 1
     /\ tracker'.right_lost_frames = tracker.right_lost_frames + 1
     /\ tracker'.left_lost_frames > LOST_THRESHOLD
     /\ tracker'.right_lost_frames > LOST_THRESHOLD
     /\ ~techniques.blending /\ ~techniques.exploding /\ Purple.state = INACTIVE)
       => /\ Blue.state = INACTIVE => techniques'.blue.state = INACTIVE
          /\ Red.state = INACTIVE => techniques'.red.state = INACTIVE

C10_NothingSpawnsOnceLandmarksAreCleared ==
    /\ []((tracker.left_lost_frames > LOST_THRESHOLD
           /\ tracker.right_lost_frames > LOST_THRESHOLD)
            => gesture_state = EmptyState)
    /\ [][C10_ClearedStep]_vars

\* C10 witness: both hands have been undetected for 20 frames, the gesture
\* state is empty and nothing has spawned
C10_Witness ==
    /\ tracker.left_lost_frames = 20 /\ tracker.right_lost_frames = 20
    /\ gesture_state = EmptyState
    /\ Blue.state = INACTIVE /\ Red.state = INACTIVE

\* ------------------------------------------------------------------------
\* SpecEnergy: one CursedEnergy (the Blue of a fresh TechniqueManager) driven
\* by direct calls of its operations, in any order, and by the scale
\* increment the orchestrator applies to a Spawning entity
\* ------------------------------------------------------------------------
\* places spawn is called with, one of them off the clamped area
EnergySpawnPoints == {<<CANVAS_WIDTH \div 2, CANVAS_HEIGHT \div 2>>, <<100, 100>>, <<0, 0>>}

\* offsets move is called with, in 1e-5 px: +-0.5 px, +-300.5 px, +-2000 px
EnergyOffsets == {-200000000, -30050000, -50000, 50000, 30050000, 200000000}

EnergyCall(e) ==
    /\ techniques' = [techniques EXCEPT !.blue = e]
    /\ UNCHANGED <<gesture_state, tracker, detector, engine>>

EnergySpawn(p) == EnergyCall(Spawn(techniques.blue, p[1], p[2]))
EnergyActivate == EnergyCall(Activate(techniques.blue))
EnergyDismiss == EnergyCall(Dismiss(techniques.blue))
EnergyMove(dx, dy) == EnergyCall(Move(techniques.blue, dx, dy))

\* self.blue.scale += SPAWN_SCALE_SPEED, as update does while Spawning
EnergyGrow ==
    /\ techniques.blue.state = SPAWNING
    /\ techniques.blue.scale + SPAWN_SCALE_SPEED <= ScaleOne
    /\ EnergyCall([techniques.blue EXCEPT !.scale = @ + SPAWN_SCALE_SPEED])

EnergyNext ==
    \/ \E p \in EnergySpawnPoints : EnergySpawn(p)
    \/ EnergyActivate
    \/ EnergyDismiss
    \/ \E dx, dy \in EnergyOffsets : EnergyMove(dx, dy)
    \/ EnergyGrow

SpecEnergy == TMInit /\ [][EnergyNext]_vars

\* ------------------------------------------------------------------------
\* Claims about CursedEnergy
\* ------------------------------------------------------------------------
\* C11: from every state of the entity, spawn(x, y) leaves it Spawning with
\* scale 0 at (x, y), activate leaves it Active with scale 1.0 where it was,
\* dismiss leaves it Inactive with scale 0 where it was, and a second dismiss
\* changes nothing.
C11_OperationStep ==
    /\ \A p \in EnergySpawnPoints :
          EnergySpawn(p) =>
              techniques'.blue = [state |-> SPAWNING, pos |-> p, scale |-> 0]
    /\ EnergyActivate =>
          techniques'.blue = [state |-> ACTIVE, pos |-> Blue.pos, scale |-> ScaleOne]
    /\ EnergyDismiss =>
          techniques'.blue = [state |-> INACTIVE, pos |-> Blue.pos, scale |-> 0]

C11_EntityOperations ==
    /\ [](Dismiss(Dismiss(Blue)) = Dismiss(Blue))
    /\ [][C11_OperationStep]_vars

\* C11 witness: the entity was spawned away from the centre and dismissed
\* there
C11_Witness == Blue = [state |-> INACTIVE, pos |-> <<100, 100>>, scale |-> 0]

\* C12: move leaves the position of an Inactive or Spawning entity as it
\* was, and leaves an Active entity within [40, 1240] x [40, 680], whatever
\* the offsets.
C12_MoveStep ==
    \A dx, dy \in EnergyOffsets :
        EnergyMove(dx, dy) =>
            /\ Blue.state # ACTIVE => techniques'.blue.pos = Blue.pos
            /\ Blue.state = ACTIVE =>
                  /\ techniques'.blue.pos[1] >= 40 /\ techniques'.blue.pos[1] <= 1240
                  /\ techniques'.blue.pos[2] >= 40 /\ techniques'.blue.pos[2] <= 680

C12_MoveOnlyWhileActiveAndClamped == [][C12_MoveStep]_vars

\* C12 witness: an Active entity pushed into the bottom-left corner
C12_Witness == Blue.state = ACTIVE /\ Blue.pos = <<40, 680>>

\* ------------------------------------------------------------------------
\* SpecGestures: GestureDetector.detect called as process_frame calls it, on
\* the tracker's two landmark fields, which are set freely here: one hand
\* alone in any pose, a left hand with its mirror image as the right hand,
\* and two open hands at chosen distances
\* ------------------------------------------------------------------------
GesturePoses ==
    {"open", "crossed", "fist", "fist_index_out", "fist_middle_out", "fist_ring_out",
     "fist_pinky_out", "fist_index_on_ratio", "pinched", "crossed_wide",
     "crossed_on_limit", "crossed_all_out", "two_out"}

\* the horizontal mirror image: every x replaced by 1 - x
Mirror(lm) == [k \in DOMAIN lm |-> <<1000 - lm[k][1], lm[k][2]>>]

\* right-hand places at distances 0, 0.139, 0.14, 0.141, 0.3, 0.45, 0.451
\* from LeftAt, and at 0.14 and 0.45 off the horizontal
DistantPlaces ==
    {<<350, 700>>, <<489, 700>>, <<490, 700>>, <<491, 700>>, <<650, 700>>,
     <<800, 700>>, <<801, 700>>, <<434, 588>>, <<620, 340>>}

GestureInputs ==
    {<<None, None>>}
    \cup {<<Some(Hand(LeftAt, p)), None>> : p \in GesturePoses}
    \cup {<<None, Some(Mirror(Hand(LeftAt, p)))>> : p \in GesturePoses}
    \cup {<<Some(Hand(LeftAt, p)), Some(Mirror(Hand(LeftAt, p)))>> : p \in GesturePoses}
    \cup {<<Some(Hand(LeftAt, "open")), Some(Hand(w, "open"))>> : w \in DistantPlaces}

\* self.gesture_detector.detect(self.left_landmarks, self.right_landmarks)
DetectCall(left, right) ==
    \E d \in {Detect(detector, left, right)} :
       /\ WithinBounds(tracker, d.det)
       /\ detector' = d.det
       /\ gesture_state' = d.state
       /\ tracker' = [tracker EXCEPT !.left_landmarks = left, !.right_landmarks = right]
       /\ UNCHANGED <<techniques, engine>>

GestureNext == \E in \in GestureInputs : DetectCall(in[1], in[2])

SpecGestures == TrackerInit /\ [][GestureNext]_vars

\* ------------------------------------------------------------------------
\* Claims about GestureDetector.detect and the raw tests
\* ------------------------------------------------------------------------
\* squared distance between two landmarks, in millionths
SquaredDistance(a, b) == (a[1] - b[1]) * (a[1] - b[1]) + (a[2] - b[2]) * (a[2] - b[2])

\* the fist condition, finger by finger, on squared distances
AllFourCurled(lm) ==
    /\ 10000 * SquaredDistance(lm.index_tip, lm.wrist) < 7225 * SquaredDistance(lm.index_mcp, lm.wrist)
    /\ 10000 * SquaredDistance(lm.middle_tip, lm.wrist) < 7225 * SquaredDistance(lm.middle_mcp, lm.wrist)
    /\ 10000 * SquaredDistance(lm.ring_tip, lm.wrist) < 7225 * SquaredDistance(lm.ring_mcp, lm.wrist)
    /\ 10000 * SquaredDistance(lm.pinky_tip, lm.wrist) < 7225 * SquaredDistance(lm.pinky_mcp, lm.wrist)

\* the crossed-fingers condition on squared distances and x-gaps
CrossedAsDescribed(lm) ==
    LET mcp_gap == lm.index_mcp[1] - lm.middle_mcp[1]
        tip_gap == lm.index_tip[1] - lm.middle_tip[1]
    IN /\ SquaredDistance(lm.index_tip, lm.wrist) > SquaredDistance(lm.index_mcp, lm.wrist)
       /\ SquaredDistance(lm.middle_tip, lm.wrist) > SquaredDistance(lm.middle_mcp, lm.wrist)
       /\ \/ 100 * SquaredDistance(lm.ring_tip, lm.wrist)
                < 121 * SquaredDistance(lm.ring_mcp, lm.wrist)
          \/ 100 * SquaredDistance(lm.pinky_tip, lm.wrist)
                < 121 * SquaredDistance(lm.pinky_mcp, lm.wrist)
       /\ \/ /\ (mcp_gap < 0 /\ tip_gap > 0) \/ (mcp_gap > 0 /\ tip_gap < 0)
             /\ tip_gap < 120 /\ tip_gap > -120
          \/ SquaredDistance(lm.index_tip, lm.middle_tip) < 20 * 20

\* C13: after a detect call hand_distance is -1 exactly when a hand's
\* landmarks were missing, and then namaste and hands_apart are FALSE; with
\* both hands namaste holds iff the wrists are less than 0.14 apart and
\* hands_apart iff more than 0.45 apart, never both, and wrists 0 apart give
\* hand_distance 0 and namaste.
C13_DistanceStep ==
    LET l == tracker'.left_landmarks
        r == tracker'.right_landmarks
        gs == gesture_state'
    IN IF IsNone(l) \/ IsNone(r)
       THEN gs.hand_distance = -1 /\ ~gs.namaste /\ ~gs.hands_apart
       ELSE LET d2 == SquaredDistance(Val(l).wrist, Val(r).wrist)
            IN /\ gs.hand_distance >= 0
               /\ gs.hand_distance * gs.hand_distance <= d2
               /\ (gs.hand_distance + 1) * (gs.hand_distance + 1) > d2
               /\ gs.namaste <=> d2 < 140 * 140
               /\ gs.hands_apart <=> d2 > 450 * 450
               /\ ~(gs.namaste /\ gs.hands_apart)
               /\ d2 = 0 => (gs.hand_distance = 0 /\ gs.namaste)

C13_DistanceAbsentOnlyWithoutBothHands == [][C13_DistanceStep]_vars

\* C13 witness: both hands given with their wrists in the same place:
\* hand_distance is 0 and namaste holds
C13_Witness ==
    /\ ~IsNone(tracker.left_landmarks) /\ ~IsNone(tracker.right_landmarks)
    /\ Val(tracker.left_landmarks).wrist = Val(tracker.right_landmarks).wrist
    /\ gesture_state.hand_distance = 0 /\ gesture_state.namaste

\* C14: a detect call without a hand's landmarks leaves that hand's two
\* counters at 0 and its fist, crossed-fingers and open flags FALSE, whatever
\* the counters were; the other hand's counters move as its own landmarks say.
C14_AbsentStep ==
    \A side \in Sides :
        LET h == Now(side)
            h1 == After(side)
            open == IF side = "left" THEN gesture_state'.left_open
                    ELSE gesture_state'.right_open
        IN /\ IsNone(h1.landmarks) =>
                 /\ h1.fist_frames = 0 /\ h1.crossed_frames = 0
                 /\ ~h1.fist /\ ~h1.crossed /\ ~open
           /\ ~IsNone(h1.landmarks) =>
                 /\ h1.fist_frames = IF AllFourCurled(Val(h1.landmarks))
                                      THEN h.fist_frames + 1 ELSE 0
                 /\ h1.crossed_frames = IF CrossedAsDescribed(Val(h1.landmarks))
                                         THEN h.crossed_frames + 1 ELSE 0

C14_AbsentHandResetsItsCounters == [][C14_AbsentStep]_vars

\* C14 witness: the left hand is absent with its counters at 0 while the
\* right hand's fist counter has reached 3
C14_Witness ==
    /\ IsNone(tracker.left_landmarks) /\ ~IsNone(tracker.right_landmarks)
    /\ detector.left_fist_frames = 0 /\ detector.left_crossed_frames = 0
    /\ detector.right_fist_frames = 3 /\ gesture_state.right_fist

\* C15: the raw fist test holds on a landmark set (the fist counter goes up)
\* exactly when each of the four fingertips is closer to the wrist than 0.85
\* times its MCP's distance; one fingertip at or beyond that makes it fail.
C15_FistStep ==
    \A side \in Sides :
        ~IsNone(After(side).landmarks) =>
            (After(side).fist_frames > 0 <=> AllFourCurled(Val(After(side).landmarks)))

C15_FistIffAllFourCurled == [][C15_FistStep]_vars

\* C15 witness: a left hand whose index tip alone sits at exactly 0.85 of its
\* MCP distance, and its mirror image as the right hand, are ruled not a fist
C15_Witness ==
    /\ tracker.left_landmarks = Some(Hand(LeftAt, "fist_index_on_ratio"))
    /\ detector.left_fist_frames = 0
    /\ detector.right_fist_frames = 0 /\ ~IsNone(tracker.right_landmarks)

\* C16: the raw crossed-fingers test holds on a landmark set exactly when
\* index and middle are extended, ring or pinky is within 1.1 of its MCP
\* distance, and the MCP and tip x-gaps have opposite signs with
\* |tip gap| < 0.12 or the two tips are closer than 0.02; so it gives the
\* same result on a hand and on its mirror image.
C16_MirrorStep ==
    LET l == After("left")
        r == After("right")
    IN /\ \A side \in Sides :
             ~IsNone(After(side).landmarks) =>
                 (After(side).crossed_frames > 0
                     <=> CrossedAsDescribed(Val(After(side).landmarks)))
       /\ (/\ ~IsNone(l.landmarks) /\ ~IsNone(r.landmarks)
           /\ Val(r.landmarks) = Mirror(Val(l.landmarks)))
             => (l.crossed_frames > 0 <=> r.crossed_frames > 0)

FarRightAt == <<801, 700>>

EngineHands ==
    {SeenLeft(Hand(LeftAt, "open")) \o SeenRight(Hand(FarRightAt, r)) :
        r \in {"open", "crossed"}}
EngineKeys == {"none", "q"}

\* the five variables as one record
State == [techniques |-> techniques, gesture_state |-> gesture_state,
          tracker |-> tracker, detector |-> detector, engine |-> engine]

EngineInit ==
    /\ techniques = NewTechniques
    /\ gesture_state = EmptyState
    /\ tracker = NewTracker
    /\ detector = NewDetector
    /\ \E outcome \in SoundOutcomes : engine = NewEngineWith(outcome)

\* run is called: _init_camera, then running = True
StartRun(primary_ok, fallback_ok) ==
    /\ engine.pc = "constructed"
    /\ engine' = RunStart(engine, primary_ok, fallback_ok)
    /\ UNCHANGED <<techniques, gesture_state, tracker, detector>>

\* one pass through the body of "while self.running"
LoopIteration(ret, hands, key) ==
    /\ engine.pc = "loop" /\ engine.running
    /\ \E n \in {Iteration(State, ret, hands, key, NoJitter)} :
          /\ WithinBounds(n.tracker, n.detector)
          /\ techniques' = n.techniques
          /\ gesture_state' = n.gesture_state
          /\ tracker' = n.tracker
          /\ detector' = n.detector
          /\ engine' = n.engine

\* the loop condition fails: release the camera and return
LeaveLoop ==
    /\ engine.pc = "loop" /\ ~engine.running
    /\ engine' = Shutdown(engine)
    /\ UNCHANGED <<techniques, gesture_state, tracker, detector>>

EngineNext ==
    \/ \E primary_ok \in BOOLEAN, fallback_ok \in BOOLEAN : StartRun(primary_ok, fallback_ok)
    \/ \E ret \in BOOLEAN, hands \in EngineHands, key \in EngineKeys :
          LoopIteration(ret, hands, key)
    \/ LeaveLoop

SpecEngine == EngineInit /\ [][EngineNext]_vars

\* ------------------------------------------------------------------------
\* Claims about LimitlessEngine (SpecEngine)
\* ------------------------------------------------------------------------
\* C18: play() is called once on the step that takes the scene from
\* REAL_WORLD to TRANSITION if a sound is loaded, and on no other step: not
\* in TRANSITION, not in VOID, and never more than once in a run.
C18_SoundStep ==
    LET entered == engine.scene = SCENE_REAL_WORLD /\ engine'.scene = SCENE_TRANSITION
    IN /\ engine'.sfx_plays =
             IF entered /\ engine.domain_sfx THEN engine.sfx_plays + 1 ELSE engine.sfx_plays
       /\ engine.scene \in {SCENE_TRANSITION, SCENE_VOID} =>
             engine'.sfx_plays = engine.sfx_plays

C18_SoundPlayedOnEnteringTransitionOnly ==
    /\ [](engine.sfx_plays <= 1)
    /\ [](engine.scene = SCENE_REAL_WORLD => engine.sfx_plays = 0)
    /\ [][C18_SoundStep]_vars

\* C18 witness: the Void has been reached with the sound played once
C18_Witness ==
    /\ engine.scene = SCENE_VOID /\ engine.domain_sfx /\ engine.sfx_plays = 1
    /\ Red.state = ACTIVE

\* C19: whether the sound is loaded has no effect on anything but the sound:
\* the states after construction differ in the sound only, and from every
\* state each step of the process (start of run, loop iteration on any frame
\* and key, leaving the loop) gives the same scene, tracker, gesture and
\* entity state whether domain_sfx is set or not; the process exits only
\* when no camera opens.
Silent(st) ==
    [st EXCEPT !.engine = [st.engine EXCEPT !.domain_sfx = FALSE, !.sfx_plays = 0,
                                            !.mixer = FALSE]]

\* the state with the sound loaded or not, played plays times
WithSound(st, loaded, plays) ==
    [st EXCEPT !.engine = [st.engine EXCEPT !.domain_sfx = loaded, !.sfx_plays = plays,
                                            !.mixer = loaded \/ st.engine.mixer]]

C19_SoundDoesNotInterfere ==
    /\ \A outcome \in SoundOutcomes :
          Silent([State EXCEPT !.engine = NewEngineWith(outcome)])
             = Silent([State EXCEPT !.engine = NewEngine])
    /\ \A plays \in 0..1 :
          LET other == WithSound(State, ~engine.domain_sfx, plays)
          IN /\ engine.pc = "constructed" =>
                   \A primary_ok \in BOOLEAN, fallback_ok \in BOOLEAN :
                       Silent([State EXCEPT !.engine =
                                  RunStart(engine, primary_ok, fallback_ok)])
                          = Silent([other EXCEPT !.engine =
                                       RunStart(other.engine, primary_ok, fallback_ok)])
             /\ (engine.pc = "loop" /\ engine.running) =>
                   \A hands \in EngineHands, key \in EngineKeys :
                       Silent(Iteration(State, TRUE, hands, key, NoJitter))
                          = Silent(Iteration(other, TRUE, hands, key, NoJitter))
             /\ (engine.pc = "loop" /\ ~engine.running) =>
                   Silent([State EXCEPT !.engine = Shutdown(engine)])
                      = Silent([other EXCEPT !.engine = Shutdown(other.engine)])
    /\ engine.pc = "exited" => (IsNone(engine.cap) /\ Len(engine.opens) = 2)
    /\ engine.pc \in {"constructed", "loop", "returned", "exited"}

\* C19 witness: without a sound the run has reached the Void, has brought
\* Red up there, and has returned after 'q'
C19_Witness ==
    /\ ~engine.domain_sfx /\ engine.sfx_plays = 0
    /\ engine.scene = SCENE_VOID /\ Red.state = ACTIVE
    /\ engine.pc = "returned"

\* C20: when neither VideoCapture(1) nor VideoCapture(0) opens, run prints
\* the error and exits with status 1 after exactly these two attempts, the
\* loop is never entered and nothing happens afterwards; when one of them
\* opens, the loop is entered.
C20_CameraStep ==
    /\ engine.pc # "exited"
    /\ engine.pc = "constructed" =>
          \A primary_ok \in BOOLEAN, fallback_ok \in BOOLEAN :
              engine' = RunStart(engine, primary_ok, fallback_ok) =>
                  IF ~primary_ok /\ ~fallback_ok
                  THEN /\ engine'.pc = "exited" /\ engine'.exit_code = Some(1)
                       /\ engine'.error_reported
                       /\ engine'.opens = <<1, 0>>
                       /\ ~engine'.running /\ IsNone(engine'.cap)
                  ELSE /\ engine'.pc = "loop" /\ engine'.running
                       /\ IsNone(engine'.exit_code) /\ ~engine'.error_reported
                       /\ engine'.opens = IF primary_ok THEN <<1>> ELSE <<1, 0>>
                       /\ engine'.cap = Some(IF primary_ok THEN 1 ELSE 0)

C20_NoCameraIsFatal ==
    /\ [](engine.pc = "exited" =>
             /\ ~engine.running /\ engine.scene = SCENE_REAL_WORLD
             /\ tracker = NewTracker /\ detector = NewDetector
             /\ gesture_state = EmptyState /\ techniques = NewTechniques)
    /\ [][C20_CameraStep]_vars

\* C20 witness: the process has exited with status 1 after trying camera 1
\* and camera 0
C20_Witness ==
    /\ engine.pc = "exited" /\ engine.exit_code = Some(1)
    /\ engine.opens = <<1, 0>> /\ engine.error_reported

\* C21: whenever the process has ended, by returning from run after 'q' or
\* by sys.exit when no camera opens, the camera is released, the display
\* window is closed and the mixer is shut down.
C21_ResourcesReleasedAtExit ==
    engine.pc \in {"returned", "exited"} =>
        (IsNone(engine.cap) /\ ~engine.windows /\ ~engine.mixer)

\* C28: after a loop iteration during which the quit key was down, running
\* is FALSE, so that the loop ends and the shutdown sequence follows,
\* whether or not the iteration's frame read succeeded.
C28_QuitEndsTheLoop ==
    (engine.pc = "loop" /\ engine.q_pressed) => ~engine.running

\* ------------------------------------------------------------------------
\* Claims about process_frame and detect together (SpecDetect)
\* ------------------------------------------------------------------------
\* C29: on a frame on which a hand that has landmarks is not detected, for
\* the 1st to the 15th time in a row, detect counts on the landmarks kept from
\* its last detection: each counter goes up by one if the raw test holds on
\* them and to 0 otherwise, and the debounced flags follow the counters.  So
\* a hand kept in a raw crossed (fist) pose has a counter of at least its
\* lost frames plus one, and its flag is up from the 4th (2nd) lost frame.
C29_StaleStep ==
    \A side \in Sides :
        LET h == Now(side)
            h1 == After(side)
        IN (~IsNone(h.landmarks) /\ h1.lost >= 1 /\ h1.lost <= 15) =>
              /\ h1.landmarks = h.landmarks
              /\ h1.crossed_frames = IF CrossedAsDescribed(Val(h.landmarks))
                                     THEN h.crossed_frames + 1 ELSE 0
              /\ h1.fist_frames = IF AllFourCurled(Val(h.landmarks))
                                  THEN h.fist_frames + 1 ELSE 0
              /\ h1.crossed <=> h1.crossed_frames >= 5
              /\ h1.fist <=> h1.fist_frames >= 3

C29_StaleCounting ==
    \A side \in Sides :
        LET h == Now(side)
        IN (~IsNone(h.landmarks) /\ h.lost >= 1) =>
              /\ CrossedAsDescribed(Val(h.landmarks)) =>
                    (h.crossed_frames >= h.lost + 1 /\ (h.lost >= 4 => h.crossed))
              /\ AllFourCurled(Val(h.landmarks)) =>
                    (h.fist_frames >= h.lost + 1 /\ (h.lost >= 2 => h.fist))

C29_CountersRunOnStaleLandmarks == []C29_StaleCounting /\ [][C29_StaleStep]_vars

\* C29 witness: the left hand was seen crossed on one frame and has been
\* undetected for 4 frames, the right hand was seen as a fist on one frame
\* and has been undetected for 2: both debounced flags are up
C29_Witness ==
    /\ tracker.left_lost_frames = 4 /\ detector.left_crossed_frames = 5
    /\ gesture_state.left_crossed_fingers
    /\ tracker.right_lost_frames = 2 /\ detector.right_fist_frames = 3
    /\ gesture_state.right_fist

\* ------------------------------------------------------------------------
\* SpecJitter: TechniqueManager.update with the random jitter of the blend:
\* the hands at rest bring up Blue (left fingers crossed) and Red (hands
\* apart) at the canvas centre, which starts a blend, and each blend tick
\* draws its four random.randint(-4, 4) as all 0 or all -4
\* ------------------------------------------------------------------------
JitterGestureStates ==
    {MkGestureState(NO_DISTANCE, "none", "none"),
     MkGestureState(NO_DISTANCE, "crossed", "none"),
     MkGestureState(500, "none", "none")}

LowJitter == [bx |-> -4, by |-> -4, rx |-> -4, ry |-> -4]
BlendJitters == {NoJitter, LowJitter}

JitterNext ==
    \E gs \in JitterGestureStates, d \in TMDeltas, jit \in BlendJitters : UpdateTick(gs, d, jit)

SpecJitter == TMInit /\ [][JitterNext]_vars

\* C24: in every reachable state of the orchestrator the positions of Blue,
\* Red and Purple lie within [40, 1240] x [40, 680].
C24_PositionsWithinCanvas ==
    \A e \in {Blue, Red, Purple} :
        /\ e.pos[1] >= 40 /\ e.pos[1] <= 1240
        /\ e.pos[2] >= 40 /\ e.pos[2] <= 680

\* ------------------------------------------------------------------------
\* SpecCollide: TechniqueManager.update with moving hands.  The left hand
\* rests or moves by MAX_DELTA (Blue goes 160 px to the left), the right hand
\* rests or moves so that Red goes 79, 80 or 81 px to the left: once Blue
\* has left the centre, Red comes up 160 px away from it and closes in to
\* exactly 80 px (no blend) or 79 px (blend), and a Red that has left the
\* centre by 79, 80 or 81 px meets a Blue coming up there.  Either hand may make a fist;
\* the right hand does not cross its fingers, so Purple is never exploded.
\* ------------------------------------------------------------------------
CollideGestureStates ==
    {MkGestureState(NO_DISTANCE, lg, "none") : lg \in TMHandGestures}
    \cup {MkGestureState(NO_DISTANCE, "none", "fist")}
    \cup {MkGestureState(500, "none", "none")}

CollideDeltas ==
    {[left_dx |-> l, left_dy |-> 0, right_dx |-> r, right_dy |-> 0] :
        l \in {0, MAX_DELTA}, r \in {0, 247, 250, 254}}

CollideNext ==
    \E gs \in CollideGestureStates, d \in CollideDeltas : UpdateTick(gs, d, NoJitter)

SpecCollide == TMInit /\ [][CollideNext]_vars

\* C27: on a tick that starts without lock-out, blending is TRUE afterwards
\* exactly when Blue and Red, as the tick's lifecycle steps leave them, are
\* both Active less than 80 px apart and Purple was Inactive; Purple is then
\* Spawning with scale 0 at their integer midpoint and blend_timer is 0.  A
\* fist that dismisses Blue or Red on the tick keeps the blend from starting.
C27_TriggerStep ==
    (~techniques.blending /\ ~techniques.exploding) =>
        LET b == techniques'.blue
            r == techniques'.red
            dx == b.pos[1] - r.pos[1]
            dy == b.pos[2] - r.pos[2]
        IN /\ techniques'.blending <=>
                 /\ b.state = ACTIVE /\ r.state = ACTIVE
                 /\ Purple.state = INACTIVE
                 /\ dx * dx + dy * dy < 80 * 80
           /\ techniques'.blending =>
                 /\ techniques'.purple =
                       [state |-> SPAWNING, scale |-> 0,
                        pos |-> <<(b.pos[1] + r.pos[1]) \div 2, (b.pos[2] + r.pos[2]) \div 2>>]
                 /\ techniques'.blend_timer = 0
           /\ (Blue.state = ACTIVE /\ gesture_state'.left_fist) =>
                 (b.state = INACTIVE /\ ~techniques'.blending)
           /\ (Red.state = ACTIVE /\ gesture_state'.right_fist) =>
                 (r.state = INACTIVE /\ ~techniques'.blending)

C27_BlendStartsOnCollisionOnly == [][C27_TriggerStep]_vars

\* C27 witness: Red has closed in on Blue from 80 px (no blend) to 79 px: the
\* blend has started with Purple Spawning at the midpoint, rounded down
C27_Witness ==
    /\ techniques.blending /\ techniques.blend_timer = 0
    /\ Blue.pos = <<480, 360>> /\ Red.pos = <<559, 360>>
    /\ Purple = [state |-> SPAWNING, scale |-> 0, pos |-> <<519, 360>>]

\* C23: a tick that starts with exploding or blending TRUE gives the same
\* result whatever the gesture flags and hand deltas are; it does not spawn
\* Blue or Red, changes their state only by the dismissal that ends the
\* blend, starts neither a blend nor an explosion, and on an explosion tick
\* changes nothing but explosion_timer, exploding and Purple's scale and state.
RestingHands == [left_dx |-> 0, left_dy |-> 0, right_dx |-> 0, right_dy |-> 0]

C23_InputsIgnored ==
    (techniques.exploding \/ techniques.blending) =>
        \A gs \in TMGestureStates, d \in CollideDeltas :
            Update(techniques, gs, d, NoJitter)
               = Update(techniques, EmptyState, RestingHands, NoJitter)

C23_LockoutStep ==
    (techniques.exploding \/ techniques.blending) =>
        /\ techniques' = Update(techniques, EmptyState, RestingHands, NoJitter)
        /\ techniques'.blue.state \in {Blue.state, INACTIVE}
        /\ techniques'.red.state \in {Red.state, INACTIVE}
        /\ (techniques'.blue.state # Blue.state \/ techniques'.red.state # Red.state) =>
              (techniques.blending /\ techniques'.blend_timer = 90 /\ ~techniques'.blending)
        /\ techniques'.exploding => techniques.exploding
        /\ techniques'.blending => techniques.blending
        /\ techniques.exploding =>
              /\ techniques'.purple.pos = Purple.pos
              /\ [techniques' EXCEPT !.explosion_timer = techniques.explosion_timer,
                                     !.exploding = TRUE,
                                     !.purple = Purple] = techniques

C23_LockoutIgnoresHands == []C23_InputsIgnored /\ [][C23_LockoutStep]_vars

\* C23 witness: half-way through a blend, with Blue still Active, the left
\* hand has made a fist
C23_Witness ==
    /\ techniques.blending /\ techniques.blend_timer = 45
    /\ Blue.state = ACTIVE /\ Red.state = ACTIVE
    /\ gesture_state.left_fist

\* ------------------------------------------------------------------------
\* Claims about the entity configurations update can reach (SpecTM)
\* ------------------------------------------------------------------------
\* C31: in every reachable state of the orchestrator, if Purple is Active
\* then Blue and Red are both Inactive.
C31_ActivePurpleStandsAlone ==
    Purple.state = ACTIVE => Blue.state = INACTIVE /\ Red.state = INACTIVE

\* Purple stands Active outside an explosion on a tick that offered both the
\* left-hand crossed fingers and the hands-apart gesture
C31_Witness ==
    /\ Purple.state = ACTIVE
    /\ ~techniques.exploding
    /\ gesture_state.left_crossed_fingers
    /\ gesture_state.hands_apart
    /\ techniques.was_left_crossed
    /\ Blue.state = INACTIVE
    /\ Red.state = INACTIVE

\* C32: in every reachable state of the orchestrator, Purple is Spawning if
\* and only if blending is true, and whenever blending is true Blue and Red
\* are both Active.
C32_PurpleSpawnsExactlyWhileBlending ==
    /\ Purple.state = SPAWNING <=> techniques.blending
    /\ techniques.blending => Blue.state = ACTIVE /\ Red.state = ACTIVE

\* half-way through a blend, on a tick that offered a left fist
C32_Witness ==
    /\ techniques.blending
    /\ techniques.blend_timer = PURPLE_BLEND_FRAMES \div 2
    /\ Purple.state = SPAWNING
    /\ gesture_state.left_fist

\* the lifecycle state and scale of an entity as its constructor leaves them
C33_AsConstructed(e) == e.state = NewEnergy.state /\ e.scale = NewEnergy.scale

\* C33: on the tick on which an explosion ends (exploding goes from true to
\* false), Blue, Red and Purple are all Inactive with scale 0 and blending is
\* false: the entities and the two lock-out flags are as at construction.
C33_EndStep ==
    (techniques.exploding /\ ~techniques'.exploding) =>
        /\ techniques'.blue.state = INACTIVE /\ techniques'.blue.scale = 0
        /\ techniques'.red.state = INACTIVE /\ techniques'.red.scale = 0
        /\ techniques'.purple.state = INACTIVE /\ techniques'.purple.scale = 0
        /\ ~techniques'.blending
        /\ techniques'.explosion_timer = 0
        /\ C33_AsConstructed(techniques'.blue)
        /\ C33_AsConstructed(techniques'.red)
        /\ C33_AsConstructed(techniques'.purple)
        /\ techniques'.blending = NewTechniques.blending
        /\ techniques'.exploding = NewTechniques.exploding

C33_ExplosionLeavesNothingBehind == [][C33_EndStep]_vars

\* an explosion has just ended: the blend that preceded it ran its 90 ticks
\* and the edge flags still hold the crossed fingers that set it off
C33_Witness ==
    /\ ~techniques.exploding
    /\ ~techniques.blending
    /\ techniques.blend_timer = PURPLE_BLEND_FRAMES
    /\ techniques.explosion_timer = 0
    /\ techniques.was_right_crossed
    /\ techniques.explosion_pos = <<CANVAS_WIDTH \div 2, CANVAS_HEIGHT \div 2>>
    /\ Blue.state = INACTIVE /\ Red.state = INACTIVE /\ Purple.state = INACTIVE

\* ------------------------------------------------------------------------
\* Claims about entities coming up next to each other (SpecCollide)
\* ------------------------------------------------------------------------
C34_Centre == <<CANVAS_WIDTH \div 2, CANVAS_HEIGHT \div 2>>

\* the entity stands less than COLLISION_THRESHOLD px from the canvas centre
C34_NearCentre(e) ==
    (e.pos[1] - C34_Centre[1]) * (e.pos[1] - C34_Centre[1])
        + (e.pos[2] - C34_Centre[2]) * (e.pos[2] - C34_Centre[2])
    < COLLISION_THRESHOLD * COLLISION_THRESHOLD

\* the tick has set blending, with the blend at its start
C34_Merged ==
    /\ techniques'.blending
    /\ techniques'.blend_timer = 0
    /\ techniques'.purple.state = SPAWNING

\* C34: Blue and Red spawn at the canvas centre (640, 360) and do not move
\* while Spawning; on the tick on which one of them goes from Spawning to
\* Active while the other, after that tick's own move and fist check, is
\* Active less than 80 px from the centre, blending is set on that same tick,
\* with the newly activated entity still at the centre.
C34_MergeStep ==
    /\ techniques'.blue.state = SPAWNING => techniques'.blue.pos = C34_Centre
    /\ techniques'.red.state = SPAWNING => techniques'.red.pos = C34_Centre
    /\ ( /\ Blue.state = SPAWNING
         /\ techniques'.blue.state = ACTIVE
         /\ techniques'.red.state = ACTIVE
         /\ C34_NearCentre(techniques'.red) ) =>
            C34_Merged /\ techniques'.blue.pos = C34_Centre
    /\ ( /\ Red.state = SPAWNING
         /\ techniques'.red.state = ACTIVE
         /\ techniques'.blue.state = ACTIVE
         /\ C34_NearCentre(techniques'.blue) ) =>
            C34_Merged /\ techniques'.red.pos = C34_Centre

C34_ActivationNextToTheOtherMerges == [][C34_MergeStep]_vars

\* a blend has just started between a Blue still at its spawn point and a
\* Red that had moved 79 px away from it
C34_Witness ==
    /\ techniques.blending
    /\ techniques.blend_timer = 0
    /\ Blue.state = ACTIVE /\ Blue.pos = C34_Centre
    /\ Red.state = ACTIVE /\ Red.pos = <<561, 360>>
    /\ Purple.state = SPAWNING /\ Purple.pos = <<600, 360>>

\* ------------------------------------------------------------------------
\* Claims about the flags of one GestureState (SpecGestures)
\* ------------------------------------------------------------------------
\* the fist, open and crossed-fingers flags of one hand in a GestureState,
\* with the landmarks detect was given for it
C35_Flags(t, gs, side) ==
    IF side = "left"
    THEN [fist |-> gs.left_fist, open |-> gs.left_open,
          crossed |-> gs.left_crossed_fingers, landmarks |-> t.left_landmarks]
    ELSE [fist |-> gs.right_fist, open |-> gs.right_open,
          crossed |-> gs.crossed_fingers, landmarks |-> t.right_landmarks]

\* C35: in every GestureState produced by detect, for each hand the debounced
\* fist flag is never TRUE together with that hand's open flag or with that
\* hand's crossed-fingers flag.
C35_Exclusive ==
    \A side \in Sides :
        LET h == C35_Flags(tracker, gesture_state, side)
        IN h.fist => ~h.open /\ ~h.crossed

\* the ground given for it: a debounced flag is TRUE only if its raw test
\* holds on the landmarks of the current call, and a raw fist has no finger
\* extended
C35_RawStep ==
    \A side \in Sides :
        LET h1 == C35_Flags(tracker', gesture_state', side)
        IN /\ h1.fist =>
                /\ ~IsNone(h1.landmarks)
                /\ IsFist(Val(h1.landmarks))
                /\ \A f \in Fingers : ~Extended(Val(h1.landmarks), f)
           /\ h1.crossed =>
                /\ ~IsNone(h1.landmarks)
                /\ IsCrossedFingers(Val(h1.landmarks))
                /\ Extended(Val(h1.landmarks), "index")

C35_FistExcludesOpenAndCrossed == []C35_Exclusive /\ [][C35_RawStep]_vars

\* the left fist flag has just come up, on the third fist frame in a row
C35_Witness ==
    /\ gesture_state.left_fist
    /\ detector.left_fist_frames = FIST_FRAMES_REQUIRED
    /\ tracker.left_landmarks = Some(Hand(LeftAt, "fist"))
    /\ ~gesture_state.left_open
    /\ ~gesture_state.left_crossed_fingers

\* ------------------------------------------------------------------------
\* Claims about the scene sequence (SpecEngine)
\* ------------------------------------------------------------------------
\* what holds of the scene in every state: the transition counter is 0 in
\* REAL_WORLD, 0..99 in TRANSITION and 100 in VOID, the engine's edge flag in
\* REAL_WORLD is the crossed-fingers flag of the last frame read, and before
\* VOID the orchestrator is as constructed
C36_SceneInvariant ==
    /\ engine.scene \in {SCENE_REAL_WORLD, SCENE_TRANSITION, SCENE_VOID}
    /\ engine.scene = SCENE_REAL_WORLD =>
          /\ engine.transition_frame = 0
          /\ engine.was_right_crossed = gesture_state.crossed_fingers
    /\ engine.scene = SCENE_TRANSITION => engine.transition_frame \in 0..99
    /\ engine.scene = SCENE_VOID => engine.transition_frame = 100
    /\ engine.scene # SCENE_VOID =>
          /\ Blue.state = INACTIVE /\ Red.state = INACTIVE /\ Purple.state = INACTIVE
          /\ ~techniques.blending /\ ~techniques.exploding
          /\ techniques = NewTechniques

\* what holds of every step: the scene stays or advances by one; REAL_WORLD
\* is left exactly on a frame whose right-hand crossed-fingers flag is up
\* after a frame on which it was down; each frame read in TRANSITION counts
\* one, a failed read counts nothing, and the 100th takes the scene to VOID;
\* VOID is not left; the orchestrator changes only on a step taken in VOID
C36_SceneStep ==
    /\ engine.scene = SCENE_REAL_WORLD =>
          /\ engine'.scene \in {SCENE_REAL_WORLD, SCENE_TRANSITION}
          /\ engine'.scene = SCENE_TRANSITION <=>
                (gesture_state'.crossed_fingers /\ ~gesture_state.crossed_fingers)
          /\ engine'.scene = SCENE_TRANSITION =>
                /\ ~engine.was_right_crossed
                /\ engine'.transition_frame = 0
                /\ engine'.windows
    /\ engine.scene = SCENE_TRANSITION =>
          /\ engine'.transition_frame
                \in {engine.transition_frame, engine.transition_frame + 1}
          /\ engine'.scene = IF engine'.transition_frame = 100
                             THEN SCENE_VOID ELSE SCENE_TRANSITION
    /\ engine.scene = SCENE_VOID =>
          /\ engine'.scene = SCENE_VOID
          /\ engine'.transition_frame = engine.transition_frame
    /\ techniques' # techniques => engine.scene = SCENE_VOID /\ engine.pc = "loop"

\* C36: the scene only advances REAL_WORLD to TRANSITION to VOID and never
\* goes back; TRANSITION is entered only on a right-hand crossed-fingers
\* rising edge seen in REAL_WORLD and lasts exactly 100 frames read; VOID is
\* never left; update runs only in VOID, so in every state before VOID is
\* entered all three entities are Inactive and blending and exploding are
\* false.
C36_SceneOnlyAdvances == []C36_SceneInvariant /\ [][C36_SceneStep]_vars

\* the Void has been entered and update has brought up Red in it
C36_Witness ==
    /\ engine.scene = SCENE_VOID
    /\ engine.transition_frame = TRANSITION_FRAMES
    /\ engine.pc = "loop"
    /\ Red.state = SPAWNING
    /\ Blue.state = INACTIVE
    /\ ~gesture_state.crossed_fingers

====
